---- MODULE Spec2Model ----
(***************************************************************************)
(* A model of bs3: a block device whose contents live in an object store.  *)
(* The unit of the model is one block (BlockSize bytes): payloads are      *)
(* tokens, one per block, and an object is its header records followed by  *)
(* its data blocks.                                                        *)
(***************************************************************************)
EXTENDS Integers, Sequences, FiniteSets, TLC

(***************************************************************************)
(* Configuration (internal/config) and constants of package bs3.           *)
(***************************************************************************)
BlockSize == 4096
ChunkSize == 4194304
WRITE_ITEM_SIZE == 32
sectorUnit == 512
notMappedKey == -1
checkpointKey == -1
\* config.Cfg.GC.LiveData, in percent.
LiveDataPercent == 30

\* config.Configure: the block size is 512 when so configured, else BlockSize.
BlockSizes == {sectorUnit, BlockSize}

\* config.Cfg.BlockSize of the running configuration; it never changes.
VARIABLE blockSize

\* bs3.New: metadata_size, and the startOfDataSectors every Update is given.
metadata_size == (ChunkSize \div blockSize) * WRITE_ITEM_SIZE
DataStart == metadata_size \div blockSize

(***************************************************************************)
(* Bounds of the model.                                                    *)
(***************************************************************************)
\* Sectors of the device: config.Cfg.Size / config.Cfg.BlockSize.
NSectors == 2
\* Write records in one kernel chunk.
MaxExtents == 2
\* Write records the shim hands over in all: its seq_no run from 1 to MaxSeq.
MaxSeq == 3
\* gcThreshold passes (SIGUSR1 signals served).
MaxGCPasses == 1
\* removeNonReferencedDeadObjects passes of the gcDead loop.
MaxReaperPasses == 1
\* config.Cfg.GC.Step: the stride of the threshold walk, in sectors.
GCStep == 1
\* Goroutines calling the object proxy at once.
NCallers == 3
\* config.Cfg.S3.Uploaders and config.Cfg.S3.Downloaders.
Uploaders == 1
Downloaders == 1
\* The largest key of a utilization snapshot handed to filterKeysToCollect.
MaxSnapshotKey == 2
\* The longest write list handed to composeObjects.
MaxWriteList == 3
\* The calls each task of the synchronisation skeleton makes.
MaxRuns == 1

SectorIds == 0 .. (NSectors - 1)

(***************************************************************************)
(* Payload tokens: <<seq_no of the write, logical sector>> for client      *)
(* data, and three tokens no client write produces.                        *)
(***************************************************************************)
Payload(seq, s) == <<seq, s>>
ZeroBlock == <<0, 0>>
JunkBlock == <<-1, -1>>
HeaderBlock == <<-2, -2>>

(***************************************************************************)
(* Go maps with integer values: a read of a missing key yields 0.          *)
(***************************************************************************)
MapGet(mp, k) == IF k \in DOMAIN mp THEN mp[k] ELSE 0
MapSet(mp, k, v) == [x \in (DOMAIN mp) \cup {k} |-> IF x = k THEN v ELSE mp[x]]
MapDel(mp, k) == [x \in (DOMAIN mp) \ {k} |-> mp[x]]
EmptyMap == [x \in {} |-> 0]

(***************************************************************************)
(* sectormap.SectorMap                                                     *)
(***************************************************************************)
SectorMetadata(sector, k, seqNo, flag) ==
    [Sector |-> sector, Key |-> k, SeqNo |-> seqNo, Flag |-> flag]

Extent(sector, length, seqNo, flag) ==
    [Sector |-> sector, Length |-> length, SeqNo |-> seqNo, Flag |-> flag]

ObjectPart(sector, length, k) ==
    [Sector |-> sector, Length |-> length, Key |-> k]

\* sectormap.New(length)
New(length) ==
    [Sectors |-> [i \in 0 .. (length - 1) |-> SectorMetadata(0, notMappedKey, 0, 0)],
     ObjUtilizations |-> EmptyMap,
     DeadObjs |-> {}]

\* updateUtilization(key, s) for s = &m.Sectors[i]
updateUtilization(sm, k, i) ==
    LET s == sm.Sectors[i]
        u1 == MapSet(sm.ObjUtilizations, k, MapGet(sm.ObjUtilizations, k) + 1)
    IN  IF s.Key # notMappedKey
        THEN LET u2 == MapSet(u1, s.Key, MapGet(u1, s.Key) - 1)
             IN  IF u2[s.Key] = 0
                 THEN [sm EXCEPT !.ObjUtilizations = MapDel(u2, s.Key),
                                 !.DeadObjs = @ \cup {s.Key}]
                 ELSE [sm EXCEPT !.ObjUtilizations = u2]
        ELSE [sm EXCEPT !.ObjUtilizations = u1]

\* updateSector(key, s, targetSector, e)
updateSector(sm, k, i, targetSector, e) ==
    [updateUtilization(sm, k, i) EXCEPT
        !.Sectors[i] = SectorMetadata(targetSector, k, e.SeqNo, e.Flag)]

\* A faulty variant of seqNoAllowsUpdate: equal sequence numbers are refused.
seqNoStrictlyNewer(s, e) == s.SeqNo < e.SeqNo

\* A faulty variant of seqNoAllowsUpdate: the comparison dropped.
seqNoAlwaysAllowsUpdate(s, e) == TRUE

\* The guard of updateExtent: "Equality because of GC".
seqNoAllowsUpdate(s, e) == s.SeqNo <= e.SeqNo

RECURSIVE updateExtentFrom(_, _, _, _, _)
updateExtentFrom(sm, e, i, targetSector, k) ==
    IF i >= e.Sector + e.Length
    THEN sm
    ELSE updateExtentFrom(
             IF seqNoAllowsUpdate(sm.Sectors[i], e)
             THEN updateSector(sm, k, i, targetSector, e)
             ELSE sm,
             e, i + 1, targetSector + 1, k)

\* updateExtent(e, startOfDataSectors, key)
updateExtent(sm, e, startOfDataSectors, k) ==
    updateExtentFrom(sm, e, e.Sector, startOfDataSectors, k)

\* The first statement of Update.
UpdateBegin(sm, k) == [sm EXCEPT !.ObjUtilizations = MapSet(@, k, 0)]

\* The last statement of Update: an object none of whose records were applied.
UpdateEnd(sm, k) ==
    IF MapGet(sm.ObjUtilizations, k) = 0
    THEN [sm EXCEPT !.ObjUtilizations = MapDel(@, k), !.DeadObjs = @ \cup {k}]
    ELSE sm

\* A faulty variant of nextStartOfDataSectors: the data offset is not advanced.
nextStartNotAdvanced(startOfDataSectors, e) == startOfDataSectors

\* "startOfDataSectors += e.Length" in the loop of Update.
nextStartOfDataSectors(startOfDataSectors, e) == startOfDataSectors + e.Length

RECURSIVE UpdateLoop(_, _, _, _, _)
UpdateLoop(sm, extents, j, startOfDataSectors, k) ==
    IF j > Len(extents)
    THEN sm
    ELSE UpdateLoop(updateExtent(sm, extents[j], startOfDataSectors, k),
                    extents, j + 1,
                    nextStartOfDataSectors(startOfDataSectors, extents[j]), k)

\* Update(extents, startOfDataSectors, key)
Update(sm, extents, startOfDataSectors, k) ==
    UpdateEnd(UpdateLoop(UpdateBegin(sm, k), extents, 1, startOfDataSectors, k), k)

\* A faulty variant of LookupSplits: positions in the object are not compared.
LookupSplitsOnKey(S, id) == S[id].Key # S[id - 1].Key

\* The condition of Lookup under which sector id starts a new part.
LookupSplits(S, id) ==
    /\ (S[id].Key # S[id - 1].Key \/ S[id].Sector # S[id - 1].Sector + 1)
    /\ (S[id].Key # -1 \/ S[id - 1].Key # notMappedKey)

RECURSIVE LookupLoop(_, _, _, _, _, _, _)
LookupLoop(S, sector, length, i, s, l, parts) ==
    IF i >= length
    THEN Append(parts, ObjectPart(s, l, S[sector + length - 1].Key))
    ELSE LET id == sector + i
         IN  IF LookupSplits(S, id)
             THEN LookupLoop(S, sector, length, i + 1, S[id].Sector, 1,
                             Append(parts, ObjectPart(s, l, S[id - 1].Key)))
             ELSE LookupLoop(S, sector, length, i + 1, s, l + 1, parts)

\* Lookup(sector, length)
Lookup(sm, sector, length) ==
    LookupLoop(sm.Sectors, sector, length, 1, sm.Sectors[sector].Sector, 1, <<>>)

RECURSIVE getExtentLength(_, _, _, _, _)
getExtentLength(S, startSector, length, i, seqNo) ==
    IF \/ i >= Cardinality(DOMAIN S)
       \/ i >= startSector + length
       \/ S[i].Key # S[i - 1].Key
       \/ S[i].SeqNo # seqNo
       \/ S[i - 1].Sector # S[i].Sector - 1
    THEN i - startSector
    ELSE getExtentLength(S, startSector, length, i + 1, seqNo)

\* getExtent(startSector, length): Sector is the sector in the object.
getExtent(sm, startSector, length) ==
    LET s == sm.Sectors[startSector]
    IN  Extent(s.Sector,
               getExtentLength(sm.Sectors, startSector, length, startSector + 1, s.SeqNo),
               s.SeqNo, s.Flag)

\* A faulty variant of FindExtentsLoop: the scan advances by one sector.
RECURSIVE FindExtentsLoopByOne(_, _, _, _, _, _)
FindExtentsLoopByOne(sm, sector, length, keys, i, ci) ==
    IF ~(i < sector + length /\ i < Cardinality(DOMAIN sm.Sectors))
    THEN ci
    ELSE LET k == sm.Sectors[i].Key
             extent == getExtent(sm, i, sector + length - i)
             ci1 == IF k \in keys
                    THEN Append(ci, [Extent |-> extent, ObjectPart |-> ObjectPart(i, 0, k)])
                    ELSE ci
         IN  FindExtentsLoopByOne(sm, sector, length, keys, i + 1, ci1)

RECURSIVE FindExtentsLoop(_, _, _, _, _, _)
FindExtentsLoop(sm, sector, length, keys, i, ci) ==
    IF ~(i < sector + length /\ i < Cardinality(DOMAIN sm.Sectors))
    THEN ci
    ELSE LET k == sm.Sectors[i].Key
             extent == getExtent(sm, i, sector + length - i)
             ci1 == IF k \in keys
                    THEN Append(ci, [Extent |-> extent, ObjectPart |-> ObjectPart(i, 0, k)])
                    ELSE ci
         IN  FindExtentsLoop(sm, sector, length, keys, i + extent.Length, ci1)

\* FindExtentsWithKeys(sector, length, keys): ObjectPart.Sector is the logical sector.
FindExtentsWithKeys(sm, sector, length, keys) ==
    FindExtentsLoop(sm, sector, length, keys, sector, <<>>)

(***************************************************************************)
(* The object store (objproxy.ObjectUploadDownloaderAt, package s3).  An   *)
(* object is its size in bytes, its header records as written (raw) and    *)
(* its data blocks; a key outside the domain of the store is absent.       *)
(***************************************************************************)
StoredObject(size, hdr, data) == [size |-> size, hdr |-> hdr, data |-> data]

\* S3.Upload(key, buf)
StoreUpload(st, k, obj) == [x \in (DOMAIN st) \cup {k} |-> IF x = k THEN obj ELSE st[x]]

\* Block b of an object: header bytes, a data block, or the zero padding.
ObjectBlock(obj, b) ==
    IF b < DataStart THEN HeaderBlock
    ELSE IF b - DataStart < Len(obj.data) THEN obj.data[b - DataStart + 1]
    ELSE ZeroBlock

\* S3.DownloadAt(key, buf, offset) succeeds: the object holds the whole range.
DownloadAtOk(st, k, offset, length) ==
    /\ k \in DOMAIN st
    /\ (offset + length) * blockSize <= st[k].size

\* The bytes S3.DownloadAt puts into buf, one token per block.
DownloadAtData(st, k, offset, length) ==
    [j \in 1 .. length |-> ObjectBlock(st[k], offset + j - 1)]

(***************************************************************************)
(* The write chunk of the kernel and the records of its header.            *)
(***************************************************************************)
\* A write record as the kernel stores it: sector and length in 512-byte units.
KernelRecord(e) ==
    [sector |-> e.Sector * (blockSize \div sectorUnit),
     length |-> e.Length * (blockSize \div sectorUnit),
     seqNo |-> e.SeqNo, flag |-> e.Flag]

\* parseExtent(b)
parseExtent(rec) ==
    Extent((rec.sector * sectorUnit) \div blockSize,
           (rec.length * sectorUnit) \div blockSize,
           rec.seqNo, rec.flag)

\* The payload blocks the kernel puts after the header for one write.
ExtentData(e) == [j \in 1 .. e.Length |-> Payload(e.SeqNo, e.Sector + j - 1)]

RECURSIVE ChunkData(_, _)
ChunkData(extents, j) ==
    IF j > Len(extents) THEN <<>> ELSE ExtentData(extents[j]) \o ChunkData(extents, j + 1)

RECURSIVE writtenTotalBlocks(_, _)
writtenTotalBlocks(extents, j) ==
    IF j > Len(extents) THEN 0 ELSE extents[j].Length + writtenTotalBlocks(extents, j + 1)

\* The shapes of one write: <<sector, length>> inside the device.
ExtentShapes == {sl \in SectorIds \X (1 .. NSectors) : sl[1] + sl[2] <= NSectors}

\* The chunks the kernel may hand over: 1 .. MaxExtents writes.
ChunkShapes == UNION {[1 .. n -> ExtentShapes] : n \in 1 .. MaxExtents}

\* The writes of a chunk with the seq_no the shim gives them, in order.
ChunkWrites(shape, firstSeq) ==
    [j \in 1 .. Len(shape) |-> Extent(shape[j][1], shape[j][2], firstSeq + j - 1, 0)]

(***************************************************************************)
(* State.                                                                  *)
(***************************************************************************)
VARIABLES
    m,           \* the SectorMap behind the map proxy
    key,         \* package key: the next unassigned key
    store,       \* the bucket
    refcounter,  \* bs3.gcData.refcounter
    w,           \* the BuseWrite call in progress
    r,           \* the BuseRead call in progress
    g,           \* the gcThreshold pass in progress
    d,           \* the removeNonReferencedDeadObjects pass in progress
    seq,         \* the last seq_no the shim handed out
    last,        \* per sector, the payload of the latest write made visible
    boot,        \* "running", "crashed" (the process is gone) or "restored"
    applied,     \* per uploaded key, the extents its in-process Update is given
    mp,          \* the worker goroutine of the ExtentMapProxy
    hist,        \* the keys handed out, uploaded under and made visible, in order
    cp,          \* the checkpoint() call in progress
    proxy,       \* the ObjectProxy: its channels, its callers and its workers
    call         \* a function of the program called on given arguments

ioVars == <<w, r, seq, last>>
gcVars == <<g, d>>
recVars == <<boot, applied>>
vars == <<blockSize, m, key, store, refcounter, ioVars, gcVars, recVars, mp, hist,
          cp, proxy, call>>

IdleWriter == [pc |-> "idle", key |-> -1, extents |-> <<>>,
               err |-> "nil", ret |-> "nil"]
IdleReader == [pc |-> "idle", sector |-> 0, length |-> 0, parts |-> <<>>,
               pending |-> {}, failed |-> {}, buf |-> <<>>, buf0 |-> <<>>,
               expect |-> <<>>, ret |-> "nil", view |-> <<>>, cuts |-> {<<>>}]
IdleGC == [pc |-> "idle", n |-> 0, keys |-> {}, i |-> 0, list |-> <<>>,
           pending |-> {}, data |-> <<>>, objs |-> <<>>, idx |-> 0, key |-> -1,
           err |-> "nil", view |-> <<>>, cuts |-> {<<>>}, emptied |-> {}]
IdleReaper == [pc |-> "idle", n |-> 0, snap |-> {}, dead |-> {}, todo |-> {}]
\* The worker in its select; in an Update it holds the request, the index of the
\* next extent, and the sector array as the Update found it and as it leaves it.
IdleWorker == [pc |-> "select", extents |-> <<>>, startOfDataSectors |-> 0,
               key |-> -1, i |-> 0, before |-> <<>>, after |-> <<>>]

\* The goroutines that call Upload and Download.
Callers == 1 .. NCallers

\* The goroutines objproxy.New spawns.
Workers ==
    ({"upload"} \X (1 .. Uploaders)) \cup ({"download"} \X (1 .. Downloaders))

\* A caller outside Upload and Download, with the error its last call returned.
IdleCall == [pc |-> "idle", kind |-> "upload", prio |-> FALSE, err |-> "nil"]

\* A worker entering receiveRequest.
FreeWorker == [pc |-> "select", r |-> 0]

\* objproxy.New: the four unbuffered channels hold the senders blocked on them,
\* in the order they arrived.
ObjectProxyNew ==
    [calls |-> [c \in Callers |-> IdleCall],
     workers |-> [x \in Workers |-> FreeWorker],
     uploads |-> <<>>, uploadsPrio |-> <<>>,
     downloads |-> <<>>, downloadsPrio |-> <<>>]

\* No checkpoint() runs; in Serialize it holds the map as the encoder found it.
IdleCheckpoint == [pc |-> "idle", begin |-> <<>>]

\* A faulty variant of workerServes: the map is read beside the worker.
servedBesideWorker(pc) == TRUE

\* worker(): a request is received only in the select, between two requests.
workerServes(pc) == pc = "select"

\* The entries of a sector array in the range [sector, sector + length).
SectorsIn(S, sector, length) ==
    [s \in {x \in DOMAIN S : x >= sector /\ x < sector + length} |-> S[s]]

\* The sector arrays between Updates: the one the running Update found and the
\* one it leaves, or the present one when no Update runs.
Committed == IF mp.pc = "update" THEN {mp.before, mp.after} ELSE {m.Sectors}

\* bs3.New under a configuration with the given block size.
Configured(bs) ==
    /\ blockSize = bs
    /\ m = New(NSectors)
    /\ key = 0
    /\ store = [x \in {} |-> 0]
    /\ refcounter = EmptyMap
    /\ w = IdleWriter
    /\ r = IdleReader
    /\ g = IdleGC
    /\ d = IdleReaper
    /\ seq = 0
    /\ last = [s \in SectorIds |-> ZeroBlock]
    /\ boot = "running"
    /\ applied = EmptyMap
    /\ mp = IdleWorker
    /\ hist = [handed |-> <<>>, uploaded |-> <<>>, visible |-> <<>>]
    /\ cp = IdleCheckpoint
    /\ proxy = ObjectProxyNew

\* No function is called on arguments of its own.
NoCall == [op |-> "none"]

\* The default configuration.
Init == Configured(BlockSize) /\ call = NoCall

\* Either block size the configuration admits.
InitBlockSizes == (\E bs \in BlockSizes : Configured(bs)) /\ call = NoCall

(***************************************************************************)
(* Package key.                                                            *)
(***************************************************************************)
\* A faulty variant of keyNext: the counter is not incremented.
keyNextStale(k) == [ret |-> k, key |-> k]

\* A faulty variant of keyNext: the counter runs backwards.
keyNextBackwards(k) == [ret |-> k, key |-> k - 1]

\* Next(): the value returned and the counter it leaves, under the mutex.
keyNext(k) == [ret |-> k, key |-> k + 1]

(***************************************************************************)
(* BuseWrite(writes, chunk)                                                *)
(***************************************************************************)
\* key.Next() and the parsing of the header.
BuseWriteNext(shape) ==
    /\ boot = "running"
    /\ cp.pc = "idle"
    /\ w.pc = "idle"
    /\ seq + Len(shape) <= MaxSeq
    /\ LET writes == ChunkWrites(shape, seq + 1)
       IN  /\ w' = [w EXCEPT !.pc = "upload", !.key = keyNext(key).ret,
                             !.extents = [j \in 1 .. Len(writes) |->
                                              parseExtent(KernelRecord(writes[j]))],
                             !.err = "nil"]
           /\ seq' = seq + Len(shape)
    /\ key' = keyNext(key).key
    /\ hist' = [hist EXCEPT !.handed = Append(@, <<"write", keyNext(key).ret>>)]
    /\ UNCHANGED <<blockSize, call, proxy, cp, m, store, refcounter, r, last, gcVars, recVars, mp>>

\* The object BuseWrite uploads: chunk[:metadata_size + dataSize].
WriteObject(extents) ==
    StoredObject(metadata_size + writtenTotalBlocks(extents, 1) * blockSize,
                 [j \in 1 .. Len(extents) |-> KernelRecord(extents[j])],
                 ChunkData(extents, 1))

\* objectStoreProxy.Upload(key, object, true) returns.
BuseWriteUpload(ok) ==
    /\ w.pc = "upload"
    /\ store' = IF ok THEN StoreUpload(store, w.key, WriteObject(w.extents)) ELSE store
    /\ w' = [w EXCEPT !.pc = "update", !.err = IF ok THEN "nil" ELSE "upload failed"]
    /\ applied' = IF ok THEN MapSet(applied, w.key, w.extents) ELSE applied
    /\ hist' = [hist EXCEPT !.uploaded = Append(@, <<"write", w.key>>)]
    /\ UNCHANGED <<blockSize, call, proxy, cp, m, key, refcounter, r, seq, last, gcVars, boot, mp>>

\* The payload a sector shows once the writes are visible, later writes last.
RECURSIVE LastAfter(_, _, _)
LastAfter(l, extents, j) ==
    IF j > Len(extents) THEN l
    ELSE LastAfter([s \in SectorIds |->
                       IF extents[j].Sector <= s /\ s < extents[j].Sector + extents[j].Length
                       THEN Payload(extents[j].SeqNo, s) ELSE l[s]],
                   extents, j + 1)

\* A faulty variant of BuseWriteReturn: the error is swallowed.
BuseWriteReturnsNil(err) == "nil"

\* "return err"
BuseWriteReturn(err) == err

\* extentMapProxy.Update(extents, metadata_size/BlockSize, key) and the return.
BuseWriteUpdate ==
    /\ w.pc = "update"
    /\ workerServes(mp.pc)
    /\ m' = Update(m, w.extents, DataStart, w.key)
    /\ last' = LastAfter(last, w.extents, 1)
    /\ w' = [w EXCEPT !.pc = "idle", !.ret = BuseWriteReturn(w.err)]
    /\ hist' = [hist EXCEPT !.visible = Append(@, w.key)]
    /\ UNCHANGED <<blockSize, call, proxy, cp, key, store, refcounter, r, seq, gcVars, recVars, mp>>

(***************************************************************************)
(* The Update of a BuseWrite as the worker of the map proxy runs it: one   *)
(* extent at a time, between the receive of the request and the send on    *)
(* its done channel.                                                       *)
(***************************************************************************)
\* "case u := <-p.updateChan" and the first statement of Update.
workerReceiveUpdate ==
    /\ w.pc = "update"
    /\ workerServes(mp.pc)
    /\ mp' = [pc |-> "update", extents |-> w.extents,
              startOfDataSectors |-> DataStart, key |-> w.key, i |-> 1,
              before |-> m.Sectors,
              after |-> Update(m, w.extents, DataStart, w.key).Sectors]
    /\ m' = UpdateBegin(m, w.key)
    /\ w' = [w EXCEPT !.pc = "updating"]
    /\ UNCHANGED <<blockSize, call, proxy, cp, key, store, refcounter, r, seq, last, gcVars, recVars, hist>>

\* One round of the loop of Update.
workerUpdateExtent ==
    /\ mp.pc = "update"
    /\ mp.i <= Len(mp.extents)
    /\ m' = updateExtent(m, mp.extents[mp.i], mp.startOfDataSectors, mp.key)
    /\ mp' = [mp EXCEPT !.i = @ + 1,
                        !.startOfDataSectors =
                            nextStartOfDataSectors(@, mp.extents[mp.i])]
    /\ UNCHANGED <<blockSize, call, proxy, cp, key, store, refcounter, ioVars, gcVars, recVars, hist>>

\* The last statement of Update, "r.done <- struct{}{}", and BuseWrite returns.
workerUpdateDone ==
    /\ mp.pc = "update"
    /\ mp.i > Len(mp.extents)
    /\ m' = UpdateEnd(m, mp.key)
    /\ mp' = IdleWorker
    /\ last' = LastAfter(last, w.extents, 1)
    /\ w' = [w EXCEPT !.pc = "idle", !.ret = BuseWriteReturn(w.err)]
    /\ hist' = [hist EXCEPT !.visible = Append(@, w.key)]
    /\ UNCHANGED <<blockSize, call, proxy, cp, key, store, refcounter, r, seq, gcVars, recVars>>

(***************************************************************************)
(* BuseRead(sector, length, chunk)                                         *)
(***************************************************************************)
RECURSIVE RefCounterAdd(_, _, _, _)
RefCounterAdd(rc, parts, j, delta) ==
    IF j > Len(parts) THEN rc
    ELSE RefCounterAdd(MapSet(rc, parts[j].Key, MapGet(rc, parts[j].Key) + delta),
                       parts, j + 1, delta)

\* The block of the buffer where part i begins (0-based).
RECURSIVE PartStart(_, _)
PartStart(parts, i) ==
    IF i <= 1 THEN 0 ELSE parts[i - 1].Length + PartStart(parts, i - 1)

\* The contents a read buffer may have when the shim hands it over.
BufferFills == {ZeroBlock, JunkBlock}

\* getObjectPiecesRefCounterInc(sector, length), and the goroutines spawned.
BuseReadLookup(sector, length, fill) ==
    /\ boot = "running"
    /\ cp.pc = "idle"
    /\ r.pc \in {"idle", "done"}
    /\ workerServes(mp.pc)
    /\ LET parts == Lookup(m, sector, length)
           buf == [j \in 1 .. length |-> fill]
       IN  /\ refcounter' = RefCounterAdd(refcounter, parts, 1, 1)
           /\ r' = [pc |-> "download", sector |-> sector,
                    length |-> length, parts |-> parts,
                    pending |-> {i \in 1 .. Len(parts) : parts[i].Key # notMappedKey},
                    failed |-> {}, buf |-> buf, buf0 |-> buf,
                    expect |-> [j \in 1 .. length |-> last[sector + j - 1]],
                    ret |-> "nil",
                    view |-> SectorsIn(m.Sectors, sector, length),
                    cuts |-> {SectorsIn(S, sector, length) : S \in Committed}]
    /\ UNCHANGED <<blockSize, call, proxy, cp, m, key, store, w, seq, last, gcVars, recVars, mp, hist>>

\* downloadObjectPart(part, chunk, wg) of part i; ok: the store driver answers.
downloadObjectPart(i, ok) ==
    /\ r.pc = "download"
    /\ i \in r.pending
    /\ LET op == r.parts[i]
           from == PartStart(r.parts, i)
           got == ok /\ DownloadAtOk(store, op.Key, op.Sector, op.Length)
       IN  r' = [r EXCEPT
                    !.pending = @ \ {i},
                    !.failed = IF got THEN @ ELSE @ \cup {i},
                    !.buf = IF got
                            THEN [j \in 1 .. r.length |->
                                     IF from < j /\ j <= from + op.Length
                                     THEN DownloadAtData(store, op.Key, op.Sector,
                                                         op.Length)[j - from]
                                     ELSE @[j]]
                            ELSE @]
    /\ UNCHANGED <<blockSize, call, proxy, cp, m, key, store, refcounter, w, seq, last, gcVars, recVars, mp, hist>>

\* A faulty variant of BuseReadReturn: a failed download fails the read.
BuseReadReturnsError(failed) == IF failed = {} THEN "nil" ELSE "download failed"

\* "return nil"
BuseReadReturn(failed) == "nil"

\* wg.Wait(), objectPiecesRefCounterDec(objectPieces) and the return.
BuseReadFinish ==
    /\ r.pc = "download"
    /\ r.pending = {}
    /\ refcounter' = RefCounterAdd(refcounter, r.parts, 1, -1)
    /\ r' = [r EXCEPT !.pc = "done", !.ret = BuseReadReturn(r.failed)]
    /\ UNCHANGED <<blockSize, call, proxy, cp, m, key, store, w, seq, last, gcVars, recVars, mp, hist>>

(***************************************************************************)
(* gcThreshold(stepSize, threshHold)                                       *)
(***************************************************************************)
\* The largest key of the utilization snapshot, as the loop computes it.
filterMaxKey(utilization) ==
    IF \E k \in DOMAIN utilization : k > 0
    THEN CHOOSE k \in DOMAIN utilization : \A k2 \in DOMAIN utilization : k2 <= k
    ELSE 0

\* A faulty variant of underThreshold: a fraction equal to the ratio is under it.
underThresholdOrEqual(v, ratio) == v * blockSize * 100 <= ratio * ChunkSize

\* "r < ratio" for used = v * BlockSize and r = used / ChunkSize; the ratio is
\* in percent.
underThreshold(v, ratio) == v * blockSize * 100 < ratio * ChunkSize

\* filterKeysToCollect(utilization, ratio)
filterKeysToCollect(utilization, ratio) ==
    {k \in DOMAIN utilization : underThreshold(utilization[k], ratio)}
        \ {filterMaxKey(utilization)}

\* ObjectsUtilization() and filterKeysToCollect.
gcThresholdSnapshot ==
    /\ boot = "running"
    /\ g.pc = "idle"
    /\ workerServes(mp.pc)
    /\ g.n < MaxGCPasses
    /\ g' = [IdleGC EXCEPT !.pc = "scan", !.n = g.n + 1,
                           !.keys = filterKeysToCollect(m.ObjUtilizations,
                                                         LiveDataPercent)]
    /\ UNCHANGED <<blockSize, call, proxy, cp, m, key, store, refcounter, ioVars, d, recVars, mp, hist>>

\* composeObjects: the items of the write list each object takes.
RECURSIVE composeItems(_, _, _, _, _)
composeItems(list, j, dataFrontier, cur, objs) ==
    IF j > Len(list)
    THEN IF Len(cur) > 0 THEN Append(objs, cur) ELSE objs
    ELSE LET bytes == list[j].Extent.Length * blockSize
         IN  IF dataFrontier + bytes > ChunkSize
             THEN composeItems(list, j + 1, metadata_size + bytes, <<j>>,
                               Append(objs, cur))
             ELSE composeItems(list, j + 1, dataFrontier + bytes, Append(cur, j), objs)

\* One stride of getCompleteWriteList: ExtentsInObjects(i, stepSize, keys); after
\* the last stride composeObjects lays the write list out and spawns the downloads.
getCompleteWriteListStride ==
    /\ g.pc = "scan"
    /\ workerServes(mp.pc)
    /\ LET list == g.list \o FindExtentsWithKeys(m, g.i, GCStep, g.keys)
           more == g.i + GCStep < NSectors
           view == SectorsIn(m.Sectors, g.i, GCStep)
           cuts == {SectorsIn(S, g.i, GCStep) : S \in Committed}
       IN  g' = IF more
                THEN [g EXCEPT !.i = @ + GCStep, !.list = list,
                               !.view = view, !.cuts = cuts]
                ELSE [g EXCEPT !.pc = "compose", !.list = list,
                               !.view = view, !.cuts = cuts,
                               !.pending = 1 .. Len(list),
                               !.data = [j \in 1 .. Len(list) |->
                                            [b \in 1 .. list[j].Extent.Length |-> ZeroBlock]],
                               !.objs = composeItems(list, 1, metadata_size, <<>>, <<>>)]
    /\ UNCHANGED <<blockSize, call, proxy, cp, m, key, store, refcounter, ioVars, d, recVars, mp, hist>>

\* The download composeObjects issues for item j of the write list; emptied
\* records the items whose source object was a zero-byte placeholder then.
composeObjectsDownload(j, ok) ==
    /\ g.pc = "compose"
    /\ j \in g.pending
    /\ LET it == g.list[j]
           got == ok /\ DownloadAtOk(store, it.ObjectPart.Key, it.Extent.Sector,
                                     it.Extent.Length)
       IN  g' = [g EXCEPT
                    !.pending = @ \ {j},
                    !.emptied = IF it.ObjectPart.Key \in DOMAIN store
                                   /\ store[it.ObjectPart.Key].size = 0
                                THEN @ \cup {j} ELSE @,
                    !.data[j] = IF got
                                THEN DownloadAtData(store, it.ObjectPart.Key,
                                                    it.Extent.Sector, it.Extent.Length)
                                ELSE @]
    /\ UNCHANGED <<blockSize, call, proxy, cp, m, key, store, refcounter, ioVars, d, recVars, mp, hist>>

\* wg.Wait() returned and no object was composed: gcThreshold returns.
gcThresholdNothing ==
    /\ g.pc = "compose"
    /\ g.pending = {}
    /\ g.objs = <<>>
    /\ g' = [g EXCEPT !.pc = "idle"]
    /\ UNCHANGED <<blockSize, call, proxy, cp, m, key, store, refcounter, ioVars, d, recVars, mp, hist>>

\* key.Next() for the next composed object.
gcThresholdNext ==
    /\ \/ g.pc = "compose" /\ g.pending = {} /\ g.objs # <<>>
       \/ g.pc = "next"
    /\ g' = [g EXCEPT !.pc = "upload", !.idx = @ + 1, !.key = keyNext(key).ret]
    /\ key' = keyNext(key).key
    /\ hist' = [hist EXCEPT !.handed = Append(@, <<"gc", keyNext(key).ret>>)]
    /\ UNCHANGED <<blockSize, call, proxy, cp, m, store, refcounter, ioVars, d, recVars, mp>>

\* A faulty variant of composedExtents: the extent is recorded with a sequence
\* number older than the one of the entry it was read from.
composedExtentsOlder(list, items) ==
    [x \in 1 .. Len(items) |->
        Extent(list[items[x]].ObjectPart.Sector, list[items[x]].Extent.Length,
               list[items[x]].Extent.SeqNo - 1, list[items[x]].Extent.Flag)]

\* The extents composeObjects records for a composed object.
composedExtents(list, items) ==
    [x \in 1 .. Len(items) |->
        Extent(list[items[x]].ObjectPart.Sector, list[items[x]].Extent.Length,
               list[items[x]].Extent.SeqNo, list[items[x]].Extent.Flag)]

\* writeHeader(metadataFrontier, g, object): the record as stored.
writeHeader(it) ==
    [sector |-> it.ObjectPart.Sector, length |-> it.Extent.Length,
     seqNo |-> it.Extent.SeqNo, flag |-> it.Extent.Flag]

RECURSIVE composedData(_, _, _)
composedData(data, items, x) ==
    IF x > Len(items) THEN <<>> ELSE data[items[x]] \o composedData(data, items, x + 1)

\* The composed object: ChunkSize bytes, header records, payloads, zero padding.
composedObject(list, data, items) ==
    StoredObject(ChunkSize, [x \in 1 .. Len(items) |-> writeHeader(list[items[x]])],
                 composedData(data, items, 1))

\* objectStoreProxy.Upload(key, objects[i], false) returns.
gcThresholdUpload(ok) ==
    /\ g.pc = "upload"
    /\ store' = IF ok
                THEN StoreUpload(store, g.key, composedObject(g.list, g.data, g.objs[g.idx]))
                ELSE store
    /\ g' = [g EXCEPT !.pc = "update", !.err = IF ok THEN "nil" ELSE "upload failed"]
    /\ applied' = IF ok
                  THEN MapSet(applied, g.key, composedExtents(g.list, g.objs[g.idx]))
                  ELSE applied
    /\ hist' = [hist EXCEPT !.uploaded = Append(@, <<"gc", g.key>>)]
    /\ UNCHANGED <<blockSize, call, proxy, cp, m, key, refcounter, ioVars, d, boot, mp>>

\* extentMapProxy.Update(extents[i], metadata_size/BlockSize, key)
gcThresholdUpdate ==
    /\ g.pc = "update"
    /\ workerServes(mp.pc)
    /\ m' = Update(m, composedExtents(g.list, g.objs[g.idx]), DataStart, g.key)
    /\ g' = [g EXCEPT !.pc = IF g.idx < Len(g.objs) THEN "next" ELSE "idle"]
    /\ UNCHANGED <<blockSize, call, proxy, cp, key, store, refcounter, ioVars, d, recVars, mp, hist>>

\* "case u := <-p.updateChan" for the Update of gcThreshold, and the first
\* statement of Update.
workerReceiveGCUpdate ==
    /\ g.pc = "update"
    /\ workerServes(mp.pc)
    /\ mp' = [pc |-> "update", extents |-> composedExtents(g.list, g.objs[g.idx]),
              startOfDataSectors |-> DataStart, key |-> g.key, i |-> 1,
              before |-> m.Sectors,
              after |-> Update(m, composedExtents(g.list, g.objs[g.idx]),
                               DataStart, g.key).Sectors]
    /\ m' = UpdateBegin(m, g.key)
    /\ g' = [g EXCEPT !.pc = "updating"]
    /\ UNCHANGED <<blockSize, call, proxy, cp, key, store, refcounter, ioVars, d, recVars, hist>>

\* The last statement of Update, "r.done <- struct{}{}", and gcThreshold goes on.
workerGCUpdateDone ==
    /\ g.pc = "updating"
    /\ mp.pc = "update"
    /\ mp.i > Len(mp.extents)
    /\ m' = UpdateEnd(m, mp.key)
    /\ mp' = IdleWorker
    /\ g' = [g EXCEPT !.pc = IF g.idx < Len(g.objs) THEN "next" ELSE "idle"]
    /\ UNCHANGED <<blockSize, call, proxy, cp, key, store, refcounter, ioVars, d, recVars, hist>>

(***************************************************************************)
(* removeNonReferencedDeadObjects(), one pass of gcDead                    *)
(***************************************************************************)
\* DeadObjects(): a copy of the dead set.
DeadObjects(sm) == sm.DeadObjs

\* extentMapProxy.DeadObjects()
reaperSnapshot ==
    /\ boot = "running"
    /\ d.pc = "idle"
    /\ workerServes(mp.pc)
    /\ d.n < MaxReaperPasses
    /\ d' = [d EXCEPT !.pc = "filter", !.n = @ + 1, !.snap = DeadObjects(m),
                       !.dead = DeadObjects(m), !.todo = {}]
    /\ UNCHANGED <<blockSize, call, proxy, cp, m, key, store, refcounter, ioVars, g, recVars, mp, hist>>

\* A faulty variant of stillDownloading: no key counts as pinned.
stillDownloadingNever(rc, k) == FALSE

\* filterDownloadingObjects: the key has a refcounter entry that is not 0.
stillDownloading(rc, k) == k \in DOMAIN rc /\ rc[k] # 0

\* filterDownloadingObjects(deadObjects)
filterDownloadingObjects ==
    /\ d.pc = "filter"
    /\ refcounter' = [k \in {x \in DOMAIN refcounter : refcounter[x] # 0} |-> refcounter[k]]
    /\ LET dead == {k \in d.dead : ~stillDownloading(refcounter, k)}
       IN  d' = [d EXCEPT !.pc = "upload", !.dead = dead, !.todo = dead]
    /\ UNCHANGED <<blockSize, call, proxy, cp, m, key, store, ioVars, g, recVars, mp, hist>>

\* objectStoreProxy.Upload(k, []byte{}, false) returns.
reaperUpload(k, ok) ==
    /\ d.pc = "upload"
    /\ k \in d.todo
    /\ store' = IF ok THEN StoreUpload(store, k, StoredObject(0, <<>>, <<>>)) ELSE store
    /\ d' = [d EXCEPT !.todo = @ \ {k}]
    /\ UNCHANGED <<blockSize, call, proxy, cp, m, key, refcounter, ioVars, g, recVars, mp, hist>>

\* A faulty variant of DeleteFromDeadObjects: the dead set is cleared.
DeleteAllDeadObjects(sm, deadObjects) == [sm EXCEPT !.DeadObjs = {}]

\* DeleteFromDeadObjects(deadObjects)
DeleteFromDeadObjects(sm, deadObjects) == [sm EXCEPT !.DeadObjs = @ \ deadObjects]

\* extentMapProxy.DeleteDeadObjects(deadObjects)
reaperDelete ==
    /\ d.pc = "upload"
    /\ d.todo = {}
    /\ workerServes(mp.pc)
    /\ m' = DeleteFromDeadObjects(m, d.dead)
    /\ d' = [d EXCEPT !.pc = "idle"]
    /\ UNCHANGED <<blockSize, call, proxy, cp, key, store, refcounter, ioVars, g, recVars, mp, hist>>

\* The keys a pass may have to visit.
KeySpace == 0 .. (MaxSeq + MaxGCPasses * NSectors)

(***************************************************************************)
(* The checkpoint: Serialize and DeserializeAndReturnNextKey.  encoding/gob *)
(* leaves a struct field with the zero value out of the stream, and the    *)
(* decoder assigns only the fields the stream holds; a slice that fits the *)
(* capacity of the destination is decoded into its elements in place.      *)
(***************************************************************************)
SectorFields == {"Sector", "Key", "SeqNo", "Flag"}

\* gob's encoding of one SectorMetadata: the fields that are not zero.
gobEncodeStruct(s) == [f \in {x \in SectorFields : s[x] # 0} |-> s[f]]

\* gob's decoding of one SectorMetadata into dest.
gobDecodeStruct(enc, dest) ==
    [f \in SectorFields |-> IF f \in DOMAIN enc THEN enc[f] ELSE dest[f]]

\* Serialize()
Serialize(sm) ==
    [Sectors |-> [i \in DOMAIN sm.Sectors |-> gobEncodeStruct(sm.Sectors[i])],
     ObjUtilizations |-> sm.ObjUtilizations,
     DeadObjs |-> sm.DeadObjs]

\* The largest key of the sector array, from notMappedKey.
RECURSIVE maxSectorKey(_, _, _)
maxSectorKey(S, i, maxKey) ==
    IF i \notin DOMAIN S THEN maxKey
    ELSE maxSectorKey(S, i + 1, IF S[i].Key > maxKey THEN S[i].Key ELSE maxKey)

\* The sector array after decoder.Decode(m) and the resize to intendedSize.
decodedSectors(sm, buf) ==
    LET intendedSize == Cardinality(DOMAIN sm.Sectors)
        n == Cardinality(DOMAIN buf.Sectors)
        zero == SectorMetadata(0, 0, 0, 0)
    IN  [i \in 0 .. (intendedSize - 1) |->
            IF i >= n THEN sm.Sectors[i]
            ELSE gobDecodeStruct(buf.Sectors[i],
                                 IF intendedSize < n THEN zero ELSE sm.Sectors[i])]

\* DeserializeAndReturnNextKey(buf): the map, and the key returned.
DeserializeAndReturnNextKey(sm, buf) ==
    LET S == decodedSectors(sm, buf)
    IN  [m |-> [Sectors |-> [i \in DOMAIN S |-> [S[i] EXCEPT !.SeqNo = 0]],
                ObjUtilizations |->
                    [k \in (DOMAIN sm.ObjUtilizations) \cup (DOMAIN buf.ObjUtilizations) |->
                        IF k \in DOMAIN buf.ObjUtilizations
                        THEN buf.ObjUtilizations[k] ELSE sm.ObjUtilizations[k]],
                DeadObjs |-> sm.DeadObjs \cup buf.DeadObjs],
         key |-> maxSectorKey(S, 0, notMappedKey) + 1]

(***************************************************************************)
(* restore(): restoreFromCheckpoint, restoreFromObjects and the truncation *)
(***************************************************************************)
\* restoreFromCheckpoint(): the map and the key counter it leaves.
restoreFromCheckpoint(sm, k, st) ==
    IF checkpointKey \in DOMAIN st
    THEN DeserializeAndReturnNextKey(sm, st[checkpointKey].data[1])
    ELSE [m |-> sm, key |-> k]

\* The records of a header up to the first whose parsed length is 0.
RECURSIVE parseHeader(_, _)
parseHeader(hdr, j) ==
    IF j > Len(hdr) \/ parseExtent(hdr[j]).Length = 0
    THEN <<>>
    ELSE <<parseExtent(hdr[j])>> \o parseHeader(hdr, j + 1)

\* Every sector the extents name is an index of the sector array; Update panics
\* with an index out of range otherwise.
extentsInRange(sm, extents) ==
    \A j \in 1 .. Len(extents) :
        \A i \in extents[j].Sector .. (extents[j].Sector + extents[j].Length - 1) :
            i \in DOMAIN sm.Sectors

\* A faulty variant of restoreFromObjects: a zero-byte object ends the loop.
RECURSIVE restoreFromObjectsToEmpty(_, _, _)
restoreFromObjectsToEmpty(sm, k, st) ==
    IF k \notin DOMAIN st \/ st[k].size = 0
    THEN [m |-> sm, key |-> k, panic |-> FALSE]
    ELSE IF ~extentsInRange(sm, parseHeader(st[k].hdr, 1))
    THEN [m |-> sm, key |-> k, panic |-> TRUE]
    ELSE restoreFromObjectsToEmpty(Update(sm, parseHeader(st[k].hdr, 1), DataStart, k),
                                   k + 1, st)

\* restoreFromObjects(): the map and the key counter when the loop ends, or when
\* an Update panics.
RECURSIVE restoreFromObjects(_, _, _)
restoreFromObjects(sm, k, st) ==
    IF k \notin DOMAIN st
    THEN [m |-> sm, key |-> k, panic |-> FALSE]
    ELSE IF st[k].size = 0
    THEN restoreFromObjects(sm, k + 1, st)
    ELSE IF ~extentsInRange(sm, parseHeader(st[k].hdr, 1))
    THEN [m |-> sm, key |-> k, panic |-> TRUE]
    ELSE restoreFromObjects(Update(sm, parseHeader(st[k].hdr, 1), DataStart, k), k + 1, st)

\* A faulty variant of DeleteKeyAndSuccessors: nothing is deleted.
DeleteNoKey(st, fromKey) == st

\* encode(key): the name of the object, "%08x/%08x" of the lower and the upper
\* 32 bits of the key.  A half is held as the signed value of its 32 bits.
encode(k) == [right |-> k, left |-> IF k < 0 THEN -1 ELSE 0]

\* A faulty variant of decode: the halves are added without the carry into the
\* sign, so the name of a negative key reads as a large key.
decodeUnsigned(name) == IF name.right < 0 THEN 2147483647 ELSE name.right

\* decode(keyWithPrefix): "(key << 32) + prefix" in int64, the halves scanned as
\* unsigned values; a key beyond 32 bits is held as the largest value.
decode(name) ==
    IF name.left + (IF name.right < 0 THEN 1 ELSE 0) = 0
    THEN name.right
    ELSE 2147483647

\* S3.DeleteKeyAndSuccessors(fromKey): of the listed objects, those whose decoded
\* name is fromKey or more are deleted.
DeleteKeyAndSuccessors(st, fromKey) ==
    [k \in {x \in DOMAIN st : ~(decode(encode(x)) >= fromKey)} |-> st[k]]

\* The process dies: what it held in memory is gone, the bucket stays.
crash ==
    /\ boot = "running"
    /\ boot' = "crashed"
    /\ m' = New(NSectors)
    /\ key' = 0
    /\ refcounter' = EmptyMap
    /\ w' = IdleWriter
    /\ r' = IdleReader
    /\ g' = IdleGC
    /\ d' = IdleReaper
    /\ mp' = IdleWorker
    /\ UNCHANGED <<blockSize, call, proxy, cp, store, seq, last, applied, hist>>

\* checkpoint() of BusePostRemove, after which the process exits.
checkpoint ==
    /\ boot = "running"
    /\ w.pc = "idle"
    /\ r.pc \in {"idle", "done"}
    /\ store' = StoreUpload(store, checkpointKey, StoredObject(1, <<>>, <<Serialize(m)>>))
    /\ boot' = "crashed"
    /\ m' = New(NSectors)
    /\ key' = 0
    /\ refcounter' = EmptyMap
    /\ w' = IdleWriter
    /\ r' = IdleReader
    /\ g' = IdleGC
    /\ d' = IdleReaper
    /\ mp' = IdleWorker
    /\ UNCHANGED <<blockSize, call, proxy, cp, seq, last, applied, hist>>

\* checkpoint() of BusePostRemove calls Instance.Serialize(): the encoder starts
\* to read the map, beside whatever the worker of the map proxy is doing.
checkpointSerialize ==
    /\ boot = "running"
    /\ w.pc = "idle"
    /\ r.pc \in {"idle", "done"}
    /\ cp.pc = "idle"
    /\ cp' = [pc |-> "serialize", begin |-> m]
    /\ UNCHANGED <<blockSize, call, proxy, m, key, store, refcounter, ioVars, gcVars, recVars, mp, hist>>

\* Serialize() returns and the dump is uploaded, after which the process exits.
\* Each part of the dump is the part the encoder found or the part as it is now.
checkpointUpload ==
    /\ cp.pc = "serialize"
    /\ \E S \in {cp.begin.Sectors, m.Sectors} :
       \E U \in {cp.begin.ObjUtilizations, m.ObjUtilizations} :
       \E D \in {cp.begin.DeadObjs, m.DeadObjs} :
           store' = StoreUpload(store, checkpointKey,
                        StoredObject(1, <<>>,
                            <<Serialize([Sectors |-> S, ObjUtilizations |-> U,
                                         DeadObjs |-> D])>>))
    /\ boot' = "crashed"
    /\ m' = New(NSectors)
    /\ key' = 0
    /\ refcounter' = EmptyMap
    /\ w' = IdleWriter
    /\ r' = IdleReader
    /\ g' = IdleGC
    /\ d' = IdleReaper
    /\ mp' = IdleWorker
    /\ cp' = IdleCheckpoint
    /\ UNCHANGED <<blockSize, call, proxy, seq, last, applied, hist>>

\* restore() of BusePreRun in the next process.
restore ==
    /\ boot = "crashed"
    /\ LET c == restoreFromCheckpoint(m, key, store)
           o == restoreFromObjects(c.m, c.key, store)
       IN  /\ m' = o.m
           /\ key' = o.key
           /\ store' = IF o.panic THEN store ELSE DeleteKeyAndSuccessors(store, o.key)
           /\ boot' = IF o.panic THEN "panicked" ELSE "restored"
    /\ UNCHANGED <<blockSize, call, proxy, cp, refcounter, ioVars, gcVars, applied, mp, hist>>

\* The store as a roll-forward sees it when the request for key f fails: the
\* loop of restoreFromObjects breaks at f as it does at a key without object.
FailingAt(st, f) == [k \in (DOMAIN st) \ {f} |-> st[k]]

\* restore() of BusePreRun in which roll-forward reaches key f and the request
\* op for it, GetObjectSize or the DownloadAt of the header, returns an error.
restoreWithError(f, op) ==
    /\ boot = "crashed"
    /\ f \in DOMAIN store
    /\ f # checkpointKey
    /\ op = "DownloadAt" => store[f].size > 0
    /\ LET c == restoreFromCheckpoint(m, key, store)
           o == restoreFromObjects(c.m, c.key, FailingAt(store, f))
       IN  /\ ~o.panic
           /\ o.key = f
           /\ m' = o.m
           /\ key' = o.key
           /\ store' = DeleteKeyAndSuccessors(store, o.key)
           /\ boot' = "restored"
    /\ UNCHANGED <<blockSize, call, proxy, cp, refcounter, ioVars, gcVars, applied, mp, hist>>

\* NewWithDefaults() of a process started with another device size configured.
resizeDevice(mapSize) ==
    /\ boot = "crashed"
    /\ m = New(NSectors)
    /\ mapSize # NSectors
    /\ m' = New(mapSize)
    /\ UNCHANGED <<blockSize, call, proxy, cp, key, store, refcounter, ioVars, gcVars, recVars, mp, hist>>

(***************************************************************************)
(* Package objproxy: Upload and Download send a request on the priority or *)
(* on the normal channel and wait for the reply; the workers take requests *)
(* with receiveRequest, call the store and reply.                          *)
(***************************************************************************)
\* Everything but the object proxy.
bs3Vars ==
    <<blockSize, m, key, store, refcounter, ioVars, gcVars, recVars, mp, hist, cp, call>>

\* The channel Upload and Download select according to prio.
requestChan(kind, prio) ==
    IF kind = "upload"
    THEN IF prio THEN "uploadsPrio" ELSE "uploads"
    ELSE IF prio THEN "downloadsPrio" ELSE "downloads"

\* "c <- request{...}": the caller blocks on the channel.
sendRequest(c, kind, prio) ==
    /\ proxy.calls[c].pc = "idle"
    /\ proxy' = [proxy EXCEPT
                    !.calls[c] = [pc |-> "send", kind |-> kind, prio |-> prio,
                                  err |-> "nil"],
                    ![requestChan(kind, prio)] = Append(@, c)]
    /\ UNCHANGED bs3Vars

\* Upload(key, body, prio)
Upload(c, prio) == sendRequest(c, "upload", prio)

\* Download(key, chunk, offset, prio)
Download(c, prio) == sendRequest(c, "download", prio)

\* "r = <-ch": the worker takes the request of the first sender blocked on ch.
takeRequest(x, ch) ==
    /\ proxy[ch] # <<>>
    /\ proxy' = [proxy EXCEPT
                    ![ch] = Tail(@),
                    !.calls[Head(proxy[ch])].pc = "wait",
                    !.workers[x] = [pc |-> "serve", r |-> Head(proxy[ch])]]
    /\ UNCHANGED bs3Vars

\* A faulty variant of selectsDefault: the first select does not look at prio.
selectsDefaultAlways(q) == TRUE

\* The first select of receiveRequest takes "default" when no sender is
\* blocked on prio.
selectsDefault(q) == q = <<>>

\* A faulty variant of receiveRequestPrio: the first select receives from both
\* channels.
receiveRequestEither(x) ==
    /\ proxy.workers[x].pc = "select"
    /\ \E prio \in BOOLEAN : takeRequest(x, requestChan(x[1], prio))

\* receiveRequest: "case r = <-prio" of the first select.
receiveRequestPrio(x) ==
    /\ proxy.workers[x].pc = "select"
    /\ takeRequest(x, requestChan(x[1], TRUE))

\* receiveRequest: "default" of the first select.
receiveRequestDefault(x) ==
    /\ proxy.workers[x].pc = "select"
    /\ selectsDefault(proxy[requestChan(x[1], TRUE)])
    /\ proxy' = [proxy EXCEPT !.workers[x].pc = "default"]
    /\ UNCHANGED bs3Vars

\* receiveRequest: the second select, which takes from either channel.
receiveRequestInner(x, prio) ==
    /\ proxy.workers[x].pc = "default"
    /\ takeRequest(x, requestChan(x[1], prio))

\* The call of the store returns err and "r.done <- err" hands it to the caller.
workerReply(x, err) ==
    /\ proxy.workers[x].pc = "serve"
    /\ proxy' = [proxy EXCEPT
                    !.calls[proxy.workers[x].r] = [IdleCall EXCEPT !.err = err],
                    !.workers[x] = FreeWorker]
    /\ UNCHANGED bs3Vars

\* uploadWorker(): Instance.Upload and the reply.
uploadWorker(x, err) == x[1] = "upload" /\ workerReply(x, err)

\* downloadWorker(): Instance.DownloadAt and the reply.
downloadWorker(x, err) == x[1] = "download" /\ workerReply(x, err)

\* Any step of one worker.
workerStep(x) ==
    \/ receiveRequestPrio(x)
    \/ receiveRequestDefault(x)
    \/ \E prio \in BOOLEAN : receiveRequestInner(x, prio)
    \/ \E err \in {"nil", "failed"} : uploadWorker(x, err) \/ downloadWorker(x, err)

(***************************************************************************)
(* Writes and reads, every upload and download succeeding.                 *)
(***************************************************************************)
NextRW ==
    \/ \E shape \in ChunkShapes : BuseWriteNext(shape)
    \/ BuseWriteUpload(TRUE)
    \/ BuseWriteUpdate
    \/ \E sl \in ExtentShapes, fill \in BufferFills : BuseReadLookup(sl[1], sl[2], fill)
    \/ \E i \in 1 .. NSectors : downloadObjectPart(i, TRUE)
    \/ BuseReadFinish

SpecRW == Init /\ [][NextRW]_vars

(***************************************************************************)
(* Writes and reads with a store driver that may fail any request.         *)
(***************************************************************************)
NextIOErr ==
    \/ \E shape \in ChunkShapes : BuseWriteNext(shape)
    \/ \E ok \in BOOLEAN : BuseWriteUpload(ok)
    \/ BuseWriteUpdate
    \/ \E sl \in ExtentShapes, fill \in BufferFills : BuseReadLookup(sl[1], sl[2], fill)
    \/ \E i \in 1 .. NSectors, ok \in BOOLEAN : downloadObjectPart(i, ok)
    \/ BuseReadFinish

SpecIOErr == Init /\ [][NextIOErr]_vars

(***************************************************************************)
(* Client writes and reads beside threshold GC, every request succeeding.  *)
(***************************************************************************)
NextGC ==
    \/ \E shape \in ChunkShapes : BuseWriteNext(shape)
    \/ BuseWriteUpload(TRUE)
    \/ BuseWriteUpdate
    \/ \E sl \in ExtentShapes, fill \in BufferFills : BuseReadLookup(sl[1], sl[2], fill)
    \/ \E i \in 1 .. NSectors : downloadObjectPart(i, TRUE)
    \/ BuseReadFinish
    \/ gcThresholdSnapshot
    \/ getCompleteWriteListStride
    \/ \E j \in 1 .. NSectors : composeObjectsDownload(j, TRUE)
    \/ gcThresholdNothing
    \/ gcThresholdNext
    \/ gcThresholdUpload(TRUE)
    \/ gcThresholdUpdate

SpecGC == Init /\ [][NextGC]_vars

(***************************************************************************)
(* Threshold GC passes that run while no client write is in progress,      *)
(* every request succeeding.                                               *)
(***************************************************************************)
NextGCQuiet ==
    \/ g.pc = "idle" /\ \E shape \in ChunkShapes : BuseWriteNext(shape)
    \/ g.pc = "idle" /\ BuseWriteUpload(TRUE)
    \/ g.pc = "idle" /\ BuseWriteUpdate
    \/ w.pc = "idle" /\ gcThresholdSnapshot
    \/ getCompleteWriteListStride
    \/ \E j \in 1 .. NSectors : composeObjectsDownload(j, TRUE)
    \/ gcThresholdNothing
    \/ gcThresholdNext
    \/ gcThresholdUpload(TRUE)
    \/ gcThresholdUpdate

SpecGCQuiet == InitBlockSizes /\ [][NextGCQuiet]_vars

(***************************************************************************)
(* Client writes beside threshold GC with a store driver that may fail     *)
(* the requests of the GC.                                                 *)
(***************************************************************************)
NextGCErr ==
    \/ \E shape \in ChunkShapes : BuseWriteNext(shape)
    \/ BuseWriteUpload(TRUE)
    \/ BuseWriteUpdate
    \/ gcThresholdSnapshot
    \/ getCompleteWriteListStride
    \/ \E j \in 1 .. NSectors, ok \in BOOLEAN : composeObjectsDownload(j, ok)
    \/ gcThresholdNothing
    \/ gcThresholdNext
    \/ \E ok \in BOOLEAN : gcThresholdUpload(ok)
    \/ gcThresholdUpdate

SpecGCErr == Init /\ [][NextGCErr]_vars

(***************************************************************************)
(* Client writes and reads beside the dead reaper.                         *)
(***************************************************************************)
NextReaper ==
    \/ \E shape \in ChunkShapes : BuseWriteNext(shape)
    \/ BuseWriteUpload(TRUE)
    \/ BuseWriteUpdate
    \/ \E sl \in ExtentShapes, fill \in BufferFills : BuseReadLookup(sl[1], sl[2], fill)
    \/ \E i \in 1 .. NSectors : downloadObjectPart(i, TRUE)
    \/ BuseReadFinish
    \/ reaperSnapshot
    \/ filterDownloadingObjects
    \/ \E k \in KeySpace, ok \in BOOLEAN : reaperUpload(k, ok)
    \/ reaperDelete

SpecReaper == Init /\ [][NextReaper]_vars

(***************************************************************************)
(* Client writes and threshold GC, a crash at any point, and the restore   *)
(* of the next process.  Every request succeeds.                           *)
(***************************************************************************)
NextCrash ==
    \/ \E shape \in ChunkShapes : BuseWriteNext(shape)
    \/ BuseWriteUpload(TRUE)
    \/ BuseWriteUpdate
    \/ gcThresholdSnapshot
    \/ getCompleteWriteListStride
    \/ \E j \in 1 .. NSectors : composeObjectsDownload(j, TRUE)
    \/ gcThresholdNothing
    \/ gcThresholdNext
    \/ gcThresholdUpload(TRUE)
    \/ gcThresholdUpdate
    \/ crash
    \/ restore

SpecCrash == Init /\ [][NextCrash]_vars

(***************************************************************************)
(* Client writes and threshold GC, the checkpoint of a shutdown, and the   *)
(* restore of the next process, started with the same or another device    *)
(* size.  Every request succeeds.                                          *)
(***************************************************************************)
MapSizes == (NSectors - 1) .. (NSectors + 1)

NextCheckpoint ==
    \/ \E shape \in ChunkShapes : BuseWriteNext(shape)
    \/ BuseWriteUpload(TRUE)
    \/ BuseWriteUpdate
    \/ gcThresholdSnapshot
    \/ getCompleteWriteListStride
    \/ \E j \in 1 .. NSectors : composeObjectsDownload(j, TRUE)
    \/ gcThresholdNothing
    \/ gcThresholdNext
    \/ gcThresholdUpload(TRUE)
    \/ gcThresholdUpdate
    \/ checkpoint
    \/ crash
    \/ \E mapSize \in MapSizes : resizeDevice(mapSize)
    \/ restore

SpecCheckpoint == InitBlockSizes /\ [][NextCheckpoint]_vars

(***************************************************************************)
(* Client writes, threshold GC and the dead reaper, then a checkpoint or a *)
(* crash, and the restore of the next process with the same device size.   *)
(* Every request succeeds.                                                 *)
(***************************************************************************)
NextRecover ==
    \/ \E shape \in ChunkShapes : BuseWriteNext(shape)
    \/ BuseWriteUpload(TRUE)
    \/ BuseWriteUpdate
    \/ gcThresholdSnapshot
    \/ getCompleteWriteListStride
    \/ \E j \in 1 .. NSectors : composeObjectsDownload(j, TRUE)
    \/ gcThresholdNothing
    \/ gcThresholdNext
    \/ gcThresholdUpload(TRUE)
    \/ gcThresholdUpdate
    \/ reaperSnapshot
    \/ filterDownloadingObjects
    \/ \E k \in KeySpace : reaperUpload(k, TRUE)
    \/ reaperDelete
    \/ checkpoint
    \/ crash
    \/ restore

SpecRecover == InitBlockSizes /\ [][NextRecover]_vars

(***************************************************************************)
(* Recovery beside a store whose requests may fail during the restore.     *)
(***************************************************************************)
NextRestoreErr ==
    \/ NextRecover
    \/ \E f \in KeySpace, op \in {"GetObjectSize", "DownloadAt"} : restoreWithError(f, op)

SpecRestoreErr == InitBlockSizes /\ [][NextRestoreErr]_vars

(***************************************************************************)
(* Restart: a process that has applied two writes crashes; the next process *)
(* restores, BusePreRun returns and the shim numbers its writes from 1     *)
(* again for one chunk, beside one threshold-GC pass and one reaper pass.  *)
(* Every request succeeds.                                                 *)
(***************************************************************************)
\* BusePreRun returns after restore(): the device serves requests again.
BusePreRun ==
    /\ boot = "restored"
    /\ boot' = "running"
    /\ seq' = 0
    /\ UNCHANGED <<blockSize, call, proxy, cp, m, key, store, refcounter, w, r, last,
                   gcVars, applied, mp, hist>>

\* The process at hand is the restarted one.
Restarted == Len(hist.handed) > seq

NextRestart ==
    \/ (Restarted => seq = 0) /\ \E shape \in ChunkShapes : BuseWriteNext(shape)
    \/ BuseWriteUpload(TRUE)
    \/ BuseWriteUpdate
    \/ Restarted /\ gcThresholdSnapshot
    \/ getCompleteWriteListStride
    \/ \E j \in 1 .. NSectors : composeObjectsDownload(j, TRUE)
    \/ gcThresholdNothing
    \/ gcThresholdNext
    \/ gcThresholdUpload(TRUE)
    \/ gcThresholdUpdate
    \/ Restarted /\ reaperSnapshot
    \/ filterDownloadingObjects
    \/ \E k \in 0 .. (2 * MaxSeq + MaxGCPasses * NSectors) : reaperUpload(k, TRUE)
    \/ reaperDelete
    \/ ~Restarted /\ Len(hist.handed) = 2 /\ w.pc = "idle" /\ crash
    \/ restore
    \/ BusePreRun

SpecRestart == Init /\ [][NextRestart]_vars

(***************************************************************************)
(* Shutdown: client writes, threshold GC whose Update the worker runs      *)
(* extent by extent, and the checkpoint of BusePostRemove.  The goroutines *)
(* of the GC are not stopped before the checkpoint.  Every request         *)
(* succeeds.                                                               *)
(***************************************************************************)
NextShutdown ==
    \/ \E shape \in ChunkShapes : BuseWriteNext(shape)
    \/ BuseWriteUpload(TRUE)
    \/ BuseWriteUpdate
    \/ gcThresholdSnapshot
    \/ getCompleteWriteListStride
    \/ \E j \in 1 .. NSectors : composeObjectsDownload(j, TRUE)
    \/ gcThresholdNothing
    \/ gcThresholdNext
    \/ gcThresholdUpload(TRUE)
    \/ workerReceiveGCUpdate
    \/ workerUpdateExtent
    \/ workerGCUpdateDone
    \/ checkpointSerialize
    \/ checkpointUpload
    \/ restore

SpecShutdown == Init /\ [][NextShutdown]_vars

(***************************************************************************)
(* Client writes whose Update the worker runs extent by extent, beside     *)
(* client reads and threshold GC.  Every request succeeds.                 *)
(***************************************************************************)
NextProxy ==
    \/ \E shape \in ChunkShapes : BuseWriteNext(shape)
    \/ BuseWriteUpload(TRUE)
    \/ workerReceiveUpdate
    \/ workerUpdateExtent
    \/ workerUpdateDone
    \/ \E sector \in SectorIds : \E length \in 1 .. (NSectors - sector) :
           \E fill \in BufferFills : BuseReadLookup(sector, length, fill)
    \/ \E i \in 1 .. NSectors : downloadObjectPart(i, TRUE)
    \/ BuseReadFinish
    \/ gcThresholdSnapshot
    \/ getCompleteWriteListStride
    \/ \E j \in 1 .. NSectors : composeObjectsDownload(j, TRUE)
    \/ gcThresholdNothing
    \/ gcThresholdNext
    \/ gcThresholdUpload(TRUE)
    \/ gcThresholdUpdate

SpecProxy == Init /\ [][NextProxy]_vars

(***************************************************************************)
(* The object proxy under the calls bs3 makes: each call site with the     *)
(* kind of its request and the prio argument it passes.                    *)
(***************************************************************************)
CallSites ==
    [BuseWrite |-> [kind |-> "upload", prio |-> TRUE],
     downloadObjectPart |-> [kind |-> "download", prio |-> TRUE],
     restoreFromCheckpoint |-> [kind |-> "download", prio |-> FALSE],
     checkpoint |-> [kind |-> "upload", prio |-> FALSE],
     gcThreshold |-> [kind |-> "upload", prio |-> FALSE],
     removeNonReferencedDeadObjects |-> [kind |-> "upload", prio |-> FALSE],
     composeObjects |-> [kind |-> "download", prio |-> TRUE]]

\* The call sites of the write and read paths, and those of the GC.
ForegroundSites == {"BuseWrite", "downloadObjectPart"}
GCSites == {"gcThreshold", "removeNonReferencedDeadObjects", "composeObjects"}

InitCallSites ==
    /\ Configured(BlockSize)
    /\ call = [op |-> "objectStoreProxy", site |-> [c \in Callers |-> "none"]]

\* b.objectStoreProxy.Upload(...) or Download(...) at a call site of bs3, by
\* goroutine c.
objectStoreProxyCall(c, site) ==
    /\ call.op = "objectStoreProxy"
    /\ proxy.calls[c].pc = "idle"
    /\ proxy' = [proxy EXCEPT
                    !.calls[c] = [pc |-> "send", kind |-> CallSites[site].kind,
                                  prio |-> CallSites[site].prio, err |-> "nil"],
                    ![requestChan(CallSites[site].kind, CallSites[site].prio)] =
                        Append(@, c)]
    /\ call' = [call EXCEPT !.site[c] = site]
    /\ UNCHANGED <<blockSize, m, key, store, refcounter, ioVars, gcVars, recVars, mp,
                   hist, cp>>

NextCallSites ==
    \/ \E c \in Callers : \E site \in DOMAIN CallSites : objectStoreProxyCall(c, site)
    \/ \E x \in Workers : receiveRequestPrio(x)
    \/ \E x \in Workers : receiveRequestDefault(x)
    \/ \E x \in Workers : \E prio \in BOOLEAN : receiveRequestInner(x, prio)
    \/ \E x \in Workers : \E err \in {"nil", "failed"} : uploadWorker(x, err)
    \/ \E x \in Workers : \E err \in {"nil", "failed"} : downloadWorker(x, err)

SpecCallSites == InitCallSites /\ [][NextCallSites]_vars

(***************************************************************************)
(* The synchronisation of bs3: two BuseRead, a BuseWrite, a gcThreshold    *)
(* pass and a dead-reaper pass as the blocking operations they perform, in *)
(* order; the refcount mutex; and the worker of the map proxy with its     *)
(* four unbuffered channels.  The requests to the object store complete.   *)
(***************************************************************************)
SyncTasks == {"BuseRead1", "BuseRead2", "BuseWrite", "gcThreshold", "gcDead"}

\* The blocking operations of each task.
program(t) ==
    CASE t \in {"BuseRead1", "BuseRead2"} ->
             <<"reflock.Lock", "Lookup", "reflock.Unlock", "Download",
               "reflock.Lock", "reflock.Unlock">>
      [] t = "BuseWrite" -> <<"Upload", "Update">>
      [] t = "gcThreshold" ->
             <<"ObjectsUtilization", "ExtentsInObjects", "Download", "Upload",
               "Update">>
      [] t = "gcDead" ->
             <<"DeadObjects", "reflock.Lock", "reflock.Unlock", "Upload",
               "DeleteDeadObjects">>

\* The channel of the map proxy a method sends its request on.
mapChan(op) ==
    CASE op = "Update" -> "updateChan"
      [] op = "Lookup" -> "lookupChan"
      [] op = "ExtentsInObjects" -> "keyedExtentsChan"
      [] op \in {"ObjectsUtilization", "DeadObjects", "DeleteDeadObjects"} -> "lockChan"
      [] OTHER -> "none"

\* The channels of the first select of worker().
HighChans == {"updateChan", "lookupChan"}

IdleTask == [st |-> "idle", i |-> 1, runs |-> 0]

InitSync ==
    /\ Configured(BlockSize)
    /\ call = [op |-> "sync", task |-> [t \in SyncTasks |-> IdleTask],
               reflock |-> "free", worker |-> [pc |-> "select", r |-> "none"]]

notCall == <<blockSize, m, key, store, refcounter, ioVars, gcVars, recVars, mp,
             hist, cp, proxy>>

\* The operation task t is at.
opOf(t) == program(t)[call.task[t].i]

\* The senders blocked on the channels chans.
Senders(chans) ==
    {t \in SyncTasks : call.task[t].st = "send" /\ mapChan(opOf(t)) \in chans}

\* Task t after its operation returned: at the next one, or out of its call.
advance(ts) ==
    [t \in SyncTasks |->
        IF t \notin ts THEN call.task[t]
        ELSE IF call.task[t].i = Len(program(t))
             THEN [call.task[t] EXCEPT !.st = "idle", !.i = 1]
             ELSE [call.task[t] EXCEPT !.st = "run", !.i = @ + 1]]

\* The call of task t starts.
taskStart(t) ==
    /\ call.op = "sync"
    /\ call.task[t].st = "idle"
    /\ call.task[t].runs < MaxRuns
    /\ call' = [call EXCEPT !.task[t].st = "run", !.task[t].runs = @ + 1]
    /\ UNCHANGED notCall

\* b.gcData.reflock.Lock()
reflockLock(t) ==
    /\ call.op = "sync"
    /\ call.task[t].st = "run"
    /\ opOf(t) = "reflock.Lock"
    /\ call.reflock = "free"
    /\ call' = [call EXCEPT !.reflock = t, !.task = advance({t})]
    /\ UNCHANGED notCall

\* A faulty variant of unlocked: the mutex stays with its holder.
unlockedNever(t) == t

\* The holder of the mutex after Unlock().
unlocked(t) == "free"

\* b.gcData.reflock.Unlock()
reflockUnlock(t) ==
    /\ call.op = "sync"
    /\ call.task[t].st = "run"
    /\ opOf(t) = "reflock.Unlock"
    /\ call' = [call EXCEPT !.reflock = unlocked(t), !.task = advance({t})]
    /\ UNCHANGED notCall

\* objectStoreProxy.Upload or Download: the store worker completes the request.
storeRequest(t) ==
    /\ call.op = "sync"
    /\ call.task[t].st = "run"
    /\ opOf(t) \in {"Upload", "Download"}
    /\ call' = [call EXCEPT !.task = advance({t})]
    /\ UNCHANGED notCall

\* "p.updateChan <- ...", "p.lookupChan <- ...", "p.keyedExtentsChan <- ...",
\* "p.lockChan <- ...": the task blocks on the channel.
mapRequest(t) ==
    /\ call.op = "sync"
    /\ call.task[t].st = "run"
    /\ mapChan(opOf(t)) # "none"
    /\ call' = [call EXCEPT !.task[t].st = "send"]
    /\ UNCHANGED notCall

\* The worker receives the request of t: it runs the method, or, for a lock
\* request, blocks on "l.done <-" while t is in the method of the instance.
received(t) ==
    [call EXCEPT
        !.worker = [pc |-> IF mapChan(opOf(t)) = "lockChan" THEN "done" ELSE "serve",
                    r |-> t],
        !.task[t].st = IF mapChan(opOf(t)) = "lockChan" THEN "locked" ELSE "wait"]

\* worker(): a case of the first select.
workerSelect(t) ==
    /\ call.op = "sync"
    /\ call.worker.pc = "select"
    /\ t \in Senders(HighChans)
    /\ call' = received(t)
    /\ UNCHANGED notCall

\* A faulty variant of pollsEmpty: the first select takes default at once.
pollsEmptyAlways(senders) == TRUE

\* The first select finds no sender on updateChan and lookupChan.
pollsEmpty(senders) == senders = {}

\* worker(): "default" of the first select.
workerDefault ==
    /\ call.op = "sync"
    /\ call.worker.pc = "select"
    /\ pollsEmpty(Senders(HighChans))
    /\ call' = [call EXCEPT !.worker.pc = "default"]
    /\ UNCHANGED notCall

\* worker(): a case of the second select.
workerInner(t) ==
    /\ call.op = "sync"
    /\ call.worker.pc = "default"
    /\ t \in Senders(HighChans \cup {"keyedExtentsChan", "lockChan"})
    /\ call' = received(t)
    /\ UNCHANGED notCall

\* update, lookup, findExtensWithKeys: the method ran and the reply is handed over.
workerReplies ==
    /\ call.op = "sync"
    /\ call.worker.pc = "serve"
    /\ call' = [call EXCEPT !.worker = [pc |-> "select", r |-> "none"],
                            !.task = advance({call.worker.r})]
    /\ UNCHANGED notCall

\* "<-done" of a lock request: the method of the instance returned in t, and the
\* worker goes on.
lockDone(t) ==
    /\ call.op = "sync"
    /\ call.task[t].st = "locked"
    /\ call' = [call EXCEPT !.worker = [pc |-> "select", r |-> "none"],
                            !.task = advance({t})]
    /\ UNCHANGED notCall

\* Any step of the worker of the map proxy.
mapWorkerStep ==
    \/ \E t \in SyncTasks : workerSelect(t)
    \/ workerDefault
    \/ \E t \in SyncTasks : workerInner(t)
    \/ workerReplies

NextSync ==
    \/ \E t \in SyncTasks : taskStart(t)
    \/ \E t \in SyncTasks : reflockLock(t)
    \/ \E t \in SyncTasks : reflockUnlock(t)
    \/ \E t \in SyncTasks : storeRequest(t)
    \/ \E t \in SyncTasks : mapRequest(t)
    \/ \E t \in SyncTasks : workerSelect(t)
    \/ workerDefault
    \/ \E t \in SyncTasks : workerInner(t)
    \/ workerReplies
    \/ \E t \in SyncTasks : lockDone(t)

SpecSync == InitSync /\ [][NextSync]_vars

\* Every goroutine that can take a step is scheduled: the started calls are not
\* suspended for ever, and the worker runs.
SpecSyncFair ==
    /\ SpecSync
    /\ WF_vars(mapWorkerStep)
    /\ \A t \in SyncTasks : WF_vars(reflockLock(t) \/ reflockUnlock(t)
                                        \/ storeRequest(t) \/ mapRequest(t)
                                        \/ lockDone(t))

(***************************************************************************)
(* filterKeysToCollect called on utilization snapshots whose objects hold  *)
(* about a quarter of a chunk of live data, with the ratio a quarter and   *)
(* the configured one.                                                     *)
(***************************************************************************)
\* The live sectors that make a quarter of a chunk.
QuarterChunk == ChunkSize \div (4 * BlockSize)

UtilizationValues == {1, QuarterChunk - 1, QuarterChunk, QuarterChunk + 1}

\* The ratios, in percent.
Ratios == {25, LiveDataPercent}

\* ObjectsUtilization(): any keys, any of the values.
Snapshots ==
    UNION {[S -> UtilizationValues] : S \in SUBSET (0 .. MaxSnapshotKey)}

InitFilter ==
    /\ Configured(BlockSize)
    /\ \E utilization \in Snapshots : \E ratio \in Ratios :
           call = [op |-> "filterKeysToCollect", pc |-> "call",
                   utilization |-> utilization, ratio |-> ratio, collect |-> {}]

\* filterKeysToCollect(utilization, ratio) returns.
filterKeysToCollectReturn ==
    /\ call.op = "filterKeysToCollect"
    /\ call.pc = "call"
    /\ call' = [call EXCEPT !.pc = "return",
                            !.collect = filterKeysToCollect(call.utilization,
                                                            call.ratio)]
    /\ UNCHANGED <<blockSize, m, key, store, refcounter, ioVars, gcVars, recVars, mp,
                   hist, cp, proxy>>

SpecFilter == InitFilter /\ [][filterKeysToCollectReturn]_vars

(***************************************************************************)
(* composeObjects called on write lists whose extents are short, half of   *)
(* the payload an object can hold, all of it, and one block more.          *)
(***************************************************************************)
\* The blocks of payload an object holds after its header.
PayloadBlocks == (ChunkSize - (ChunkSize \div BlockSize) * WRITE_ITEM_SIZE) \div BlockSize

ItemLengths == {1, PayloadBlocks \div 2, PayloadBlocks, PayloadBlocks + 1}

\* Write lists of extents of these lengths.
WriteLists ==
    UNION {[1 .. n ->
               {[Extent |-> Extent(0, l, 1, 0),
                 ObjectPart |-> ObjectPart(0, 0, 0)] : l \in ItemLengths}]
           : n \in 0 .. MaxWriteList}

\* "data := object[dataFrontier : dataFrontier + Length*BlockSize]" of an item
\* that does not fit an empty object: slice bounds out of range.
composeObjectsPanics(writeList) ==
    \E j \in 1 .. Len(writeList) :
        metadata_size + writeList[j].Extent.Length * blockSize > ChunkSize

InitCompose ==
    /\ Configured(BlockSize)
    /\ \E writeList \in WriteLists :
           call = [op |-> "composeObjects", pc |-> "call", writeList |-> writeList,
                   objects |-> <<>>, panic |-> FALSE]

\* composeObjects(writeList) returns, or panics.
composeObjectsReturn ==
    /\ call.op = "composeObjects"
    /\ call.pc = "call"
    /\ call' = [call EXCEPT
                   !.pc = "return",
                   !.objects = composeItems(call.writeList, 1, metadata_size,
                                            <<>>, <<>>),
                   !.panic = composeObjectsPanics(call.writeList)]
    /\ UNCHANGED <<blockSize, m, key, store, refcounter, ioVars, gcVars, recVars, mp,
                   hist, cp, proxy>>

SpecCompose == InitCompose /\ [][composeObjectsReturn]_vars

(***************************************************************************)
(* The object proxy under callers that keep sending requests of either     *)
(* priority.  The fair specification adds that a worker that can take a    *)
(* step takes one: the goroutines are scheduled and the store answers.     *)
(***************************************************************************)
NextObjProxy ==
    \/ \E c \in Callers : \E prio \in BOOLEAN : Upload(c, prio)
    \/ \E c \in Callers : \E prio \in BOOLEAN : Download(c, prio)
    \/ \E x \in Workers : receiveRequestPrio(x)
    \/ \E x \in Workers : receiveRequestDefault(x)
    \/ \E x \in Workers : \E prio \in BOOLEAN : receiveRequestInner(x, prio)
    \/ \E x \in Workers : \E err \in {"nil", "failed"} : uploadWorker(x, err)
    \/ \E x \in Workers : \E err \in {"nil", "failed"} : downloadWorker(x, err)

SpecObjProxy == Init /\ [][NextObjProxy]_vars

SpecObjProxyFair == SpecObjProxy /\ \A x \in Workers : WF_vars(workerStep(x))

(***************************************************************************)
(* Properties of the read and write paths.                                 *)
(***************************************************************************)
\* The blocks of the finished read's buffer that part i was to fill.
PartSlice(buf, parts, i) ==
    [j \in 1 .. parts[i].Length |-> buf[PartStart(parts, i) + j]]

\* C1: with every upload and download succeeding and no GC pass, a finished
\* BuseRead holds, for every sector of its range that had been written when it
\* looked the range up, the payload of the latest write covering that sector.
C1_ReadReturnsLastWritten ==
    r.pc = "done" =>
        \A j \in 1 .. r.length :
            r.expect[j] # ZeroBlock => r.buf[j] = r.expect[j]

\* A read of both sectors that needed two parts, the second sector written twice.
C1_Witness ==
    /\ r.pc = "done"
    /\ r.length = 2
    /\ Len(r.parts) = 2
    /\ r.expect[1] # ZeroBlock
    /\ r.expect[2][1] = MaxSeq

\* C4: every sector entry with key # -1 refers to an object that was uploaded
\* successfully and has not been emptied or deleted on the store.
C4_MappedKeysAreStored ==
    \A s \in SectorIds :
        m.Sectors[s].Key # notMappedKey =>
            /\ m.Sectors[s].Key \in DOMAIN store
            /\ store[m.Sectors[s].Key].size > 0

\* C5: whenever no upload is in flight, every key in [0, key.Current()) has an
\* object on the store.
C5_KeysFormDensePrefix ==
    (w.pc # "upload" /\ g.pc \notin {"upload"} /\ d.pc \notin {"upload"}) =>
        \A k \in 0 .. (key - 1) : k \in DOMAIN store

\* C7: a finished BuseRead holds zero bytes in the blocks of every sector of its
\* range that was never written, whatever the buffer held before, and no
\* download was issued for a part of never-written sectors.
C7_UnmappedSectorsReadAsZero ==
    r.pc = "done" =>
        \A i \in 1 .. Len(r.parts) :
            r.parts[i].Key = notMappedKey =>
                /\ i \notin r.failed
                /\ \A j \in 1 .. r.parts[i].Length :
                       PartSlice(r.buf, r.parts, i)[j] = ZeroBlock

\* C8: BuseRead returns nil whatever the downloads did: it has waited for every
\* part, each part that succeeded holds the bytes of its object, and the slice
\* of each part that failed is as the caller handed it over.
C8_ReadSucceedsDespiteFailedDownloads ==
    r.pc = "done" =>
        /\ r.ret = "nil"
        /\ r.pending = {}
        /\ \A i \in 1 .. Len(r.parts) :
               IF i \in r.failed
               THEN PartSlice(r.buf, r.parts, i) = PartSlice(r.buf0, r.parts, i)
               ELSE r.parts[i].Key # notMappedKey =>
                        PartSlice(r.buf, r.parts, i) =
                            DownloadAtData(store, r.parts[i].Key, r.parts[i].Sector,
                                           r.parts[i].Length)

\* A finished read of two parts, one downloaded and one failed.
C8_Witness ==
    /\ r.pc = "done"
    /\ Len(r.parts) = 2
    /\ Cardinality(r.failed) = 1
    /\ \A i \in 1 .. 2 : r.parts[i].Key # notMappedKey
    /\ r.buf0[1] = JunkBlock

\* C9: a BuseWrite whose upload failed in the store driver returns that error,
\* and one whose upload succeeded returns nil.
C9_WriteReturnsUploadError ==
    (w.pc = "idle" /\ w.key >= 0) =>
        /\ w.ret = w.err
        /\ (w.ret = "nil") <=> (w.key \in DOMAIN store)

\* A write has returned the error of its failed upload.
C9_Witness ==
    /\ w.pc = "idle"
    /\ w.ret = "upload failed"
    /\ w.key \notin DOMAIN store

(***************************************************************************)
(* Properties of the garbage collector beside client I/O.                  *)
(***************************************************************************)
\* The payload the map shows for sector s: the block its entry points at.
MapShows(s) == ObjectBlock(store[m.Sectors[s].Key], m.Sectors[s].Sector)

\* C2: with threshold-GC passes interleaved with client writes of increasing
\* seq_no, every written sector's entry points at the payload of the latest
\* client write, in every state, and a finished BuseRead holds that payload.
C2_GCKeepsLatestWrite ==
    /\ \A s \in SectorIds :
           last[s] # ZeroBlock =>
               /\ m.Sectors[s].Key \in DOMAIN store
               /\ MapShows(s) = last[s]
    /\ r.pc = "done" =>
           \A j \in 1 .. r.length :
               r.expect[j] # ZeroBlock => r.buf[j] = r.expect[j]

\* A pass has ended whose composed object lost every record to a client write
\* made while the pass ran, and a read has returned that write.
C2_Witness ==
    /\ g.pc = "idle"
    /\ g.key \in m.DeadObjs
    /\ r.pc = "done"
    /\ \E j \in 1 .. r.length : r.expect[j][1] = MaxSeq

\* C6: from a read's lookup to its refcount decrement, no object it got a part
\* of is emptied, and no reaper pass that has filtered its snapshot holds the
\* key of such an object.
C6_PinnedObjectsAreNotReaped ==
    r.pc = "download" =>
        \A i \in 1 .. Len(r.parts) :
            r.parts[i].Key # notMappedKey =>
                /\ r.parts[i].Key \in DOMAIN store
                /\ store[r.parts[i].Key].size > 0
                /\ d.pc = "upload" => r.parts[i].Key \notin d.dead

\* A read still downloads from an object that died after its lookup, and the
\* reaper, whose snapshot held the key, is uploading its placeholders.
C6_Witness ==
    /\ r.pc = "download"
    /\ d.pc = "upload"
    /\ \E i \in r.pending : r.parts[i].Key \in d.snap \ d.dead

(***************************************************************************)
(* Properties of recovery.                                                 *)
(***************************************************************************)
\* The (key, sector_in_object) rows of a sector array.
Rows(sm) == [s \in DOMAIN sm.Sectors |-> <<sm.Sectors[s].Key, sm.Sectors[s].Sector>>]

\* The map of a process that applied the updates of the keys below frontier, in
\* the order of the keys, and stopped.
RECURSIVE InProcess(_, _, _)
InProcess(sm, k, frontier) ==
    IF k >= frontier THEN sm
    ELSE InProcess(IF k \in DOMAIN applied
                   THEN Update(sm, applied[k], DataStart, k) ELSE sm,
                   k + 1, frontier)

\* C3: after a crash at any point, restore() leaves a sector array whose (key,
\* sector_in_object) rows are those of an in-process execution that stopped
\* after the last object of the dense uploaded prefix.
C3_RestoreEqualsInProcess ==
    boot = "restored" => Rows(m) = Rows(InProcess(New(NSectors), 0, key))

(***************************************************************************)
(* Properties of the map proxy.                                            *)
(***************************************************************************)
\* C10: the sector entries a Lookup of a read, or a keyed-extent scan of the GC,
\* was answered from are those of the sector array before or after each Update:
\* none or all of the extents of a chunk, never a part of them.
C10_ChunkVisibleAtomically ==
    /\ r.view \in r.cuts
    /\ g.view \in g.cuts

\* The stepwise Update leaves the sector array the Update of one step leaves.
UpdateStepsAgree ==
    (mp.pc = "update" /\ mp.i > Len(mp.extents)) => m.Sectors = mp.after

\* A read of both sectors was answered from the map that holds both extents of
\* the chunk the worker applied in two rounds, the second over the first.
C10_Witness ==
    /\ r.pc = "download"
    /\ r.length = NSectors
    /\ w.pc = "idle"
    /\ Len(w.extents) = 2
    /\ w.extents[1].Sector # w.extents[2].Sector
    /\ \A s \in SectorIds : r.view[s].Key = w.key

RECURSIVE SumOver(_, _)
SumOver(f, S) ==
    IF S = {} THEN 0
    ELSE LET x == CHOOSE y \in S : TRUE
         IN  f[x] + SumOver(f, S \ {x})

\* The sectors of a map that refer to no object.
Unmapped(sm) == {s \in DOMAIN sm.Sectors : sm.Sectors[s].Key = notMappedKey}

\* C12: whenever no Update is in progress, the utilizations of all keys and the
\* number of unmapped sector entries add up to the number of sectors of the
\* device, also after a deserialization and a change of the device size.
C12_UtilizationsSumToDeviceSize ==
    (mp.pc = "select" /\ boot # "panicked") =>
        SumOver(m.ObjUtilizations, DOMAIN m.ObjUtilizations)
            + Cardinality(Unmapped(m)) = Cardinality(DOMAIN m.Sectors)

\* The keys the sector entries of a map refer to.
ReferencedKeys(sm) ==
    {sm.Sectors[s].Key : s \in DOMAIN sm.Sectors} \ {notMappedKey}

\* C13: in every state the dead set and the keys of the utilization index are
\* disjoint, and every key a sector entry refers to is in one of the two.
C13_DeadAndUtilizedDisjoint ==
    boot # "panicked" =>
        /\ m.DeadObjs \cap DOMAIN m.ObjUtilizations = {}
        /\ ReferencedKeys(m) \subseteq m.DeadObjs \cup DOMAIN m.ObjUtilizations

\* Serialize() of the map, decoded by DeserializeAndReturnNextKey into the map
\* New makes for a device of the same size.
RoundTrip(sm) ==
    DeserializeAndReturnNextKey(New(Cardinality(DOMAIN sm.Sectors)), Serialize(sm))

\* C14: for a device of unchanged size, Serialize followed by
\* DeserializeAndReturnNextKey into a fresh map reproduces the sector in the
\* object, the key and the flag of every sector entry, and returns 1 + the
\* largest key of the sector array (0 when no sector is mapped).
C14_RoundTripPreservesEntries ==
    (mp.pc = "select" /\ boot = "running") =>
        /\ \A s \in DOMAIN m.Sectors :
               /\ RoundTrip(m).m.Sectors[s].Sector = m.Sectors[s].Sector
               /\ RoundTrip(m).m.Sectors[s].Key = m.Sectors[s].Key
               /\ RoundTrip(m).m.Sectors[s].Flag = m.Sectors[s].Flag
        /\ RoundTrip(m).key = maxSectorKey(m.Sectors, 0, notMappedKey) + 1

\* Serialize() of the map, decoded by DeserializeAndReturnNextKey into the map
\* New makes for a device of mapSize sectors.
Resized(sm, mapSize) ==
    DeserializeAndReturnNextKey(New(mapSize), Serialize(sm)).m.Sectors

\* C15: DeserializeAndReturnNextKey tolerates a change of the device size: the
\* sector array has the configured length, the checkpointed entries that fit
\* are kept, every added entry is unmapped, and every seq_no is 0.
C15_DeserializeToleratesResize ==
    (mp.pc = "select" /\ boot = "running") =>
        \A mapSize \in MapSizes :
            /\ DOMAIN Resized(m, mapSize) = 0 .. (mapSize - 1)
            /\ \A s \in DOMAIN Resized(m, mapSize) :
                   /\ Resized(m, mapSize)[s].SeqNo = 0
                   /\ s \in DOMAIN m.Sectors =>
                          /\ Resized(m, mapSize)[s].Sector = m.Sectors[s].Sector
                          /\ Resized(m, mapSize)[s].Key = m.Sectors[s].Key
                          /\ Resized(m, mapSize)[s].Flag = m.Sectors[s].Flag
                   /\ s \notin DOMAIN m.Sectors =>
                          Resized(m, mapSize)[s].Key = notMappedKey

(***************************************************************************)
(* Properties of the key counter.                                          *)
(***************************************************************************)
\* The largest of a set of keys, notMappedKey when it is empty.
MaxKey(S) == IF S = {} THEN notMappedKey ELSE CHOOSE k \in S : \A x \in S : x <= k

\* The keys of the data objects on the store.
StoredKeys == DOMAIN store \ {checkpointKey}

\* C16 as stated: after restore() the key counter equals 1 + the largest key
\* referenced in the map and exceeds every key of an object on the store.
C16_CounterIsOnePastLargestReferenced ==
    boot = "restored" =>
        /\ key = 1 + MaxKey(ReferencedKeys(m))
        /\ \A k \in StoredKeys : k < key

\* C16, amended: after restore() the key counter is at least 1 + the largest key
\* referenced in the map and exceeds every key of an object on the store, so
\* no later key.Next() returns a key in use.
C16_CounterPastReferencedAndStored ==
    boot = "restored" =>
        /\ key >= 1 + MaxKey(ReferencedKeys(m))
        /\ \A k \in StoredKeys : k < key
        /\ keyNext(key).ret \notin StoredKeys \cup ReferencedKeys(m)

\* restore() has rolled forward over stored objects and left the counter above
\* an object on the store that no sector refers to.
C16_Witness ==
    /\ boot = "restored"
    /\ ReferencedKeys(m) # {}
    /\ key - 1 \in StoredKeys \ ReferencedKeys(m)

\* C17: key.Next() is an atomic post-increment: the keys handed out are
\* strictly increasing, so the write path and the threshold GC never obtain the
\* same key; every data object is uploaded under a key its uploader obtained
\* from its own preceding Next(), and no two are uploaded under the same key.
C17_KeysHandedOutOnce ==
    /\ \A i, j \in 1 .. Len(hist.handed) :
           i < j => hist.handed[i][2] < hist.handed[j][2]
    /\ \A i \in 1 .. Len(hist.uploaded) :
           \E j \in 1 .. Len(hist.handed) : hist.handed[j] = hist.uploaded[i]
    /\ \A i, j \in 1 .. Len(hist.uploaded) :
           i # j => hist.uploaded[i][2] # hist.uploaded[j][2]
    /\ w.pc = "upload" => \E j \in 1 .. Len(hist.handed) : hist.handed[j] = <<"write", w.key>>
    /\ g.pc = "upload" => \E j \in 1 .. Len(hist.handed) : hist.handed[j] = <<"gc", g.key>>

\* The write path and the threshold GC both hold a key from Next() whose upload
\* has not returned, after earlier objects were uploaded.
C17_Witness ==
    /\ w.pc = "upload"
    /\ g.pc = "upload"
    /\ w.key # g.key
    /\ Len(hist.uploaded) >= 2

(***************************************************************************)
(* Properties of the map proxy.                                            *)
(***************************************************************************)
\* The tasks inside a method of the map instance.
MapAccessors ==
    (IF mp.pc = "update" THEN {"worker"} ELSE {})
        \cup (IF cp.pc = "serialize" THEN {"checkpoint"} ELSE {})

\* C18: at no time do two tasks access the extent map at once: every operation
\* on the map instance, the Serialize of the final checkpoint included, runs in
\* the worker of the map proxy or while that worker is parked on a lock request.
C18_OneTaskAccessesMap == Cardinality(MapAccessors) <= 1

(***************************************************************************)
(* Properties of the object proxy.                                         *)
(***************************************************************************)
\* A sender is blocked on the priority channel of the workers of this kind.
PrioPending(kind) == proxy[requestChan(kind, TRUE)] # <<>>

\* C19: requests on the normal channel cannot starve requests on the priority
\* channel: a worker that becomes free while a priority request is pending
\* takes a priority request, every pending priority request is eventually
\* taken, and every pending normal request is eventually taken unless a
\* priority request is pending.
C19_PriorityBeforeNormal ==
    /\ [][\A x \in Workers :
            (/\ proxy.workers[x].pc = "select"
             /\ PrioPending(x[1])
             /\ proxy'.workers[x] # proxy.workers[x])
                => /\ proxy'.workers[x].pc = "serve"
                   /\ proxy.calls[proxy'.workers[x].r].prio]_vars
    /\ \A c \in Callers :
           (proxy.calls[c].pc = "send" /\ proxy.calls[c].prio)
               ~> (proxy.calls[c].pc = "wait")
    /\ \A c \in Callers :
           (proxy.calls[c].pc = "send" /\ ~proxy.calls[c].prio)
               ~> (proxy.calls[c].pc = "wait" \/ PrioPending(proxy.calls[c].kind))

\* A worker serves a priority request while a normal request to the workers of
\* its kind is pending.
C19_Witness ==
    \E x \in Workers : \E c \in Callers :
        /\ proxy.workers[x].pc = "serve"
        /\ proxy.calls[proxy.workers[x].r].prio
        /\ proxy.calls[c].pc = "send"
        /\ ~proxy.calls[c].prio
        /\ proxy.calls[c].kind = x[1]

(***************************************************************************)
(* Properties of SectorMap.Update.                                         *)
(***************************************************************************)
\* The sectors of extent e whose entry in S has a seq_no not above that of e.
Replaced(S, e) ==
    {s \in DOMAIN S : /\ s >= e.Sector
                      /\ s < e.Sector + e.Length
                      /\ S[s].SeqNo <= e.SeqNo}

\* C20: Update replaces a sector entry exactly when the seq_no of the entry is
\* at most that of the incoming extent; any other entry is left unchanged in
\* every field and causes no change of the utilizations.  Stated of each round
\* of the loop of Update, which applies one extent.
C20_UpdateReplacesBySeqNo ==
    [][(mp.pc = "update" /\ mp'.pc = "update" /\ mp'.i = mp.i + 1) =>
          LET e == mp.extents[mp.i]
              R == Replaced(m.Sectors, e)
          IN  /\ \A s \in DOMAIN m.Sectors :
                     m'.Sectors[s] =
                         IF s \in R
                         THEN SectorMetadata(mp.startOfDataSectors + (s - e.Sector),
                                             mp.key, e.SeqNo, e.Flag)
                         ELSE m.Sectors[s]
              /\ \A k \in DOMAIN m.ObjUtilizations \cup DOMAIN m'.ObjUtilizations :
                     MapGet(m'.ObjUtilizations, k) =
                         MapGet(m.ObjUtilizations, k)
                             + (IF k = mp.key THEN Cardinality(R) ELSE 0)
                             - Cardinality({s \in R : m.Sectors[s].Key = k})
              /\ R = {} => /\ m'.ObjUtilizations = m.ObjUtilizations
                           /\ m'.DeadObjs = m.DeadObjs]_vars

\* The loop of Update has just left alone an entry whose seq_no is above that of
\* the extent it applied.
C20_Witness ==
    /\ mp.pc = "update"
    /\ mp.i > 1
    /\ \E s \in DOMAIN m.Sectors :
           /\ s >= mp.extents[mp.i - 1].Sector
           /\ s < mp.extents[mp.i - 1].Sector + mp.extents[mp.i - 1].Length
           /\ m.Sectors[s].SeqNo > mp.extents[mp.i - 1].SeqNo
           /\ m.Sectors[s].Key # mp.key

(***************************************************************************)
(* Properties of the utilization index under Update.                       *)
(***************************************************************************)
\* The number of sector entries of the map whose key is k.
EntriesOf(sm, k) == Cardinality({s \in DOMAIN sm.Sectors : sm.Sectors[s].Key = k})

\* restore() went past the key the checkpoint resumes at: restoreFromObjects
\* called Update for at least one object.
RolledForward ==
    /\ boot = "restored"
    /\ restoreFromCheckpoint(New(Cardinality(DOMAIN m.Sectors)), 0, store).key < key

\* C21: after every Update the utilization of each key of the index is the
\* number of sector entries of that key and is positive; a key that leaves the
\* index, or whose own Update applied none of its extents, is in the dead set.
C21_UtilizationCountsEntries ==
    /\ []((mp.pc = "select" /\ boot \in {"running", "restored"}
             /\ (boot = "restored" => RolledForward)) =>
            /\ \A k \in DOMAIN m.ObjUtilizations :
                   /\ m.ObjUtilizations[k] = EntriesOf(m, k)
                   /\ m.ObjUtilizations[k] > 0
            /\ \A k \in ReferencedKeys(m) : k \in DOMAIN m.ObjUtilizations)
    /\ [][(boot = "running" /\ boot' = "running" /\ mp'.pc = "select") =>
            /\ \A k \in DOMAIN m.ObjUtilizations \ DOMAIN m'.ObjUtilizations :
                   k \in m'.DeadObjs
            /\ (w.pc \in {"update", "updating"} /\ w'.pc = "idle") =>
                   w.key \in DOMAIN m'.ObjUtilizations \cup m'.DeadObjs
            /\ (g.pc \in {"update", "updating"} /\ g'.pc \notin {"update", "updating"}) =>
                   g.key \in DOMAIN m'.ObjUtilizations \cup m'.DeadObjs]_vars

(***************************************************************************)
(* Properties of Lookup.                                                   *)
(***************************************************************************)
\* The ranges (sector, length >= 1) inside the device of a map.
RangesOf(sm) ==
    {sl \in (DOMAIN sm.Sectors) \X (1 .. Cardinality(DOMAIN sm.Sectors)) :
        sl[1] + sl[2] <= Cardinality(DOMAIN sm.Sectors)}

\* The parts expanded sector by sector: the key and the sector in the object.
RECURSIVE ExpandParts(_, _)
ExpandParts(parts, j) ==
    IF j > Len(parts) THEN <<>>
    ELSE [x \in 1 .. parts[j].Length |->
             [Key |-> parts[j].Key, Sector |-> parts[j].Sector + x - 1]]
         \o ExpandParts(parts, j + 1)

\* Lengths are positive and sum to length, and the list is minimal.
PartsWellFormed(parts, length) ==
    /\ \A j \in 1 .. Len(parts) : parts[j].Length >= 1
    /\ Len(ExpandParts(parts, 1)) = length
    /\ \A j \in 1 .. (Len(parts) - 1) :
           /\ ~(parts[j].Key = notMappedKey /\ parts[j + 1].Key = notMappedKey)
           /\ ~(/\ parts[j].Key = parts[j + 1].Key
                /\ parts[j + 1].Sector = parts[j].Sector + parts[j].Length)

\* C22: for every range inside the device Lookup returns parts in ascending
\* logical order whose lengths sum to length, whose expansion sector by sector
\* is the key of each sector entry of the range and, where the entry is mapped,
\* its sector in the object (an unmapped entry has no place in an object), and
\* the list is minimal.
C22_LookupExpandsToEntries ==
    (mp.pc = "select" /\ boot # "panicked") =>
        \A sl \in RangesOf(m) :
            /\ PartsWellFormed(Lookup(m, sl[1], sl[2]), sl[2])
            /\ \A x \in 1 .. sl[2] :
                   /\ ExpandParts(Lookup(m, sl[1], sl[2]), 1)[x].Key
                          = m.Sectors[sl[1] + x - 1].Key
                   /\ m.Sectors[sl[1] + x - 1].Key # notMappedKey =>
                          ExpandParts(Lookup(m, sl[1], sl[2]), 1)[x].Sector
                              = m.Sectors[sl[1] + x - 1].Sector

\* A BuseRead looked up a range of two sectors of one object that are not
\* consecutive in it, and got two parts.
C22_Witness ==
    /\ r.pc \notin {"idle", "done"}
    /\ r.length = 2
    /\ Len(r.parts) = 2
    /\ r.parts[1].Key = r.parts[2].Key
    /\ r.parts[1].Key # notMappedKey

(***************************************************************************)
(* Properties of FindExtentsWithKeys.                                      *)
(***************************************************************************)
\* The logical sectors a pair of FindExtentsWithKeys stands for.
PairRange(p) == p.ObjectPart.Sector .. (p.ObjectPart.Sector + p.Extent.Length - 1)

\* What C23 says of one result ci for the range (sector, length) and the keys.
KeyedExtentsCorrect(sm, sector, length, keys, ci) ==
    /\ \A a, b \in 1 .. Len(ci) : a # b => PairRange(ci[a]) \cap PairRange(ci[b]) = {}
    /\ \A a \in 1 .. Len(ci) :
           /\ ci[a].Extent.Length >= 1
           /\ PairRange(ci[a]) \subseteq sector .. (sector + length - 1)
           /\ ci[a].ObjectPart.Key \in keys
           /\ \A s \in PairRange(ci[a]) :
                  /\ sm.Sectors[s].Key = ci[a].ObjectPart.Key
                  /\ sm.Sectors[s].SeqNo = ci[a].Extent.SeqNo
                  /\ sm.Sectors[s].Sector
                         = ci[a].Extent.Sector + (s - ci[a].ObjectPart.Sector)
    /\ \A s \in sector .. (sector + length - 1) :
           sm.Sectors[s].Key \in keys =>
               \E a \in 1 .. Len(ci) : s \in PairRange(ci[a])

\* C23: for every range and key set FindExtentsWithKeys returns pairs whose
\* logical ranges do not overlap, lie inside the range, belong to keys of the
\* set only and cover every sector of the range whose key is in the set; the
\* extent of a pair stays within one key, one seq_no and one run of consecutive
\* sectors of the object.
C23_KeyedExtentsPartitionRange ==
    (mp.pc = "select" /\ boot # "panicked") =>
        \A sl \in RangesOf(m) :
            \A keys \in SUBSET (ReferencedKeys(m) \cup m.DeadObjs) :
                KeyedExtentsCorrect(m, sl[1], sl[2], keys,
                                    FindExtentsWithKeys(m, sl[1], sl[2], keys))

\* The threshold GC has scanned the device for the keys it collects and found
\* an extent, beside a sector of a key it does not collect.
C23_Witness ==
    /\ g.pc = "compose"
    /\ Len(g.list) >= 1
    /\ \E s \in DOMAIN m.Sectors :
           m.Sectors[s].Key # notMappedKey /\ m.Sectors[s].Key \notin g.keys

(***************************************************************************)
(* Properties of the threshold GC.                                         *)
(***************************************************************************)
\* C24: filterKeysToCollect returns exactly the keys of the snapshot whose live
\* fraction, live sectors * BlockSize / ChunkSize, is strictly below the ratio,
\* minus the largest key of the snapshot: a key whose fraction equals the ratio
\* is not selected, and the largest key is never selected.
C24_SelectsKeysBelowThreshold ==
    (call.op = "filterKeysToCollect" /\ call.pc = "return") =>
        /\ call.collect =
               {k \in DOMAIN call.utilization :
                    call.utilization[k] * BlockSize * 100 < call.ratio * ChunkSize}
                   \ {MaxKey(DOMAIN call.utilization)}
        /\ \A k \in DOMAIN call.utilization :
               call.utilization[k] * BlockSize * 100 = call.ratio * ChunkSize
                   => k \notin call.collect
        /\ MaxKey(DOMAIN call.utilization) \notin call.collect

\* The call returned keys, left out a key whose fraction is the ratio, and left
\* out the largest key although its fraction is below the ratio.
C24_Witness ==
    /\ call.op = "filterKeysToCollect"
    /\ call.pc = "return"
    /\ call.collect # {}
    /\ \E k \in DOMAIN call.utilization :
           /\ k # MaxKey(DOMAIN call.utilization)
           /\ call.utilization[k] * BlockSize * 100 = call.ratio * ChunkSize
    /\ call.utilization[MaxKey(DOMAIN call.utilization)] * BlockSize * 100
           < call.ratio * ChunkSize

\* The payload the sector array S shows for sector s in the store st.
Shows(S, st, s) == ObjectBlock(st[S[s].Key], S[s].Sector)

\* C25: after a threshold-GC pass beside which no client write ran and whose
\* downloads and uploads succeeded, no sector entry refers to a selected key and
\* every selected key is in the dead set; each step of the pass leaves an entry
\* as it was, or moves an entry of a selected key to a key allocated in the pass,
\* at a position that holds the same payload.
C25_PassMovesSelectedKeys ==
    /\ [](g.pc = "idle" /\ g.n > 0 =>
            /\ \A s \in DOMAIN m.Sectors : m.Sectors[s].Key \notin g.keys
            /\ g.keys \subseteq m.DeadObjs)
    /\ [][g.pc # "idle" =>
            \A s \in DOMAIN m.Sectors :
                \/ m'.Sectors[s] = m.Sectors[s]
                \/ /\ m.Sectors[s].Key \in g.keys
                   /\ m'.Sectors[s].Key = g.key
                   /\ g.key \notin DOMAIN m.ObjUtilizations \cup m.DeadObjs
                   /\ <<"gc", g.key>> \in {hist.handed[i] : i \in 1 .. Len(hist.handed)}
                   /\ Shows(m'.Sectors, store', s) = Shows(m.Sectors, store, s)]_vars

\* A pass has ended that selected a key and moved its sector to the composed
\* object, and left the sector of the largest key alone.
C25_Witness ==
    /\ g.pc = "idle"
    /\ g.n > 0
    /\ g.keys # {}
    /\ g.key \in DOMAIN store
    /\ \E s, s2 \in DOMAIN m.Sectors :
           /\ m.Sectors[s].Key = g.key
           /\ m.Sectors[s2].Key \notin {g.key, notMappedKey}
           /\ last[s] # ZeroBlock
           /\ Shows(m.Sectors, store, s) = last[s]

\* The items of the composed objects, one object after the other.
RECURSIVE Flatten(_, _)
Flatten(objs, i) == IF i > Len(objs) THEN <<>> ELSE objs[i] \o Flatten(objs, i + 1)

\* The bytes of the header and the payloads of a composed object.
ComposedBytes(list, items) ==
    metadata_size + SumOver([x \in 1 .. Len(items) |->
                                list[items[x]].Extent.Length * blockSize],
                            1 .. Len(items))

C27_FailedUploadIsNotApplied ==
    (g.err # "nil" /\ g.pc \in {"next", "idle"}) =>
        /\ \A s \in DOMAIN m.Sectors : m.Sectors[s].Key # g.key
        /\ \A j \in 1 .. Len(g.list) :
               g.list[j].ObjectPart.Key \notin m.DeadObjs

(***************************************************************************)
(* Properties of the dead reaper.                                          *)
(***************************************************************************)
\* The keys of the snapshot of the pass that filterDownloadingObjects took out.
Pinned == d.snap \ d.dead

\* C28: a dead-reaper pass uploads a zero-byte body under every key of its
\* snapshot whose refcount is not above 0, and under no other key, and no step
\* removes a key from the store; the pinned keys are not emptied and stay in the
\* dead set when the pass ends, for a later pass to reap.
C28_ReaperEmptiesUnpinnedKeys ==
    /\ [][DOMAIN store \subseteq DOMAIN store']_vars
    /\ [][(d.pc = "filter" /\ d'.pc = "upload") =>
             /\ d'.dead = {k \in d.snap : MapGet(refcounter, k) <= 0}
             /\ d'.todo = d'.dead]_vars
    /\ [][(d.pc = "upload" /\ d'.pc = "upload" /\ d'.todo # d.todo) =>
             \E k \in d.dead :
                 /\ d'.todo = d.todo \ {k}
                 /\ \/ store' = store
                    \/ store' = StoreUpload(store, k, StoredObject(0, <<>>, <<>>))]_vars
    /\ [][(d.pc = "upload" /\ d'.pc = "idle") =>
             /\ d.todo = {}
             /\ m'.DeadObjs = m.DeadObjs \ d.dead
             /\ Pinned \subseteq m'.DeadObjs]_vars
    /\ [](d.pc = "upload" =>
             \A k \in Pinned :
                 /\ k \in m.DeadObjs
                 /\ k \in DOMAIN store
                 /\ store[k].size > 0)

\* A pass has ended that emptied one key of its snapshot and left the key a
\* read still downloads from in the dead set, with its object as it was.
C28_Witness ==
    /\ d.pc = "idle"
    /\ d.n > 0
    /\ \E k \in Pinned : k \in m.DeadObjs /\ store[k].size > 0
    /\ \E k \in d.dead : store[k].size = 0 /\ k \notin m.DeadObjs

(***************************************************************************)
(* Properties of receiveRequest.                                           *)
(***************************************************************************)
\* Worker x has taken a request in this step.
Takes(x) == proxy.workers[x].pc # "serve" /\ proxy'.workers[x].pc = "serve"

\* C29: a worker that enters receiveRequest while a priority request waits
\* takes a priority request, never a normal one; a worker takes a normal
\* request only in the second select, which it reaches only when no priority
\* request was waiting as it polled in the first.
C29_NormalOnlyAfterEmptyPoll ==
    /\ [][\A x \in Workers :
            (Takes(x) /\ ~proxy.calls[proxy'.workers[x].r].prio)
                => /\ proxy.workers[x].pc = "default"
                   /\ proxy.calls[proxy'.workers[x].r].kind = x[1]]_vars
    /\ [][\A x \in Workers :
            (proxy.workers[x].pc = "select" /\ proxy'.workers[x].pc = "default")
                => ~PrioPending(x[1])]_vars
    /\ [][\A x \in Workers :
            (proxy.workers[x].pc = "select" /\ PrioPending(x[1]) /\ Takes(x))
                => proxy'.workers[x].r \in
                       {proxy.uploadsPrio[i] : i \in 1 .. Len(proxy.uploadsPrio)}
                           \cup {proxy.downloadsPrio[i] :
                                    i \in 1 .. Len(proxy.downloadsPrio)}]_vars
    /\ \A x \in Workers :
           (proxy.workers[x].pc = "select" /\ PrioPending(x[1]))
               ~> \/ /\ proxy.workers[x].pc = "serve"
                     /\ proxy.calls[proxy.workers[x].r].prio
                  \/ ~PrioPending(x[1])

\* A worker that polled when no priority request waited serves a normal request
\* while a priority request, sent after it polled, waits.
C29_Witness ==
    \E x \in Workers :
        /\ proxy.workers[x].pc = "serve"
        /\ ~proxy.calls[proxy.workers[x].r].prio
        /\ PrioPending(x[1])

\* The senders blocked on the priority channels, and on the normal channels.
OnPrioChannels ==
    {proxy.uploadsPrio[i] : i \in 1 .. Len(proxy.uploadsPrio)}
        \cup {proxy.downloadsPrio[i] : i \in 1 .. Len(proxy.downloadsPrio)}
OnNormalChannels ==
    {proxy.uploads[i] : i \in 1 .. Len(proxy.uploads)}
        \cup {proxy.downloads[i] : i \in 1 .. Len(proxy.downloads)}

\* C30: every upload and download of the write and read paths is sent on a
\* priority channel, and every upload and download of the GC (the downloads and
\* uploads of compaction, the empty uploads of the reaper) on a normal channel.
C30_ForegroundPrioGCNormal ==
    call.op = "objectStoreProxy" =>
        \A c \in Callers :
            proxy.calls[c].pc = "send" =>
                /\ call.site[c] \in ForegroundSites => c \in OnPrioChannels
                /\ call.site[c] \in GCSites => c \in OnNormalChannels

(***************************************************************************)
(* Properties of the worker of the map proxy.                              *)
(***************************************************************************)
\* The worker has received a request in this step.
Receives == call.worker.pc \in {"select", "default"} /\ call'.worker.r # "none"

\* C31: the worker of the map proxy serves a keyed-extents or lock request only
\* in its second select, which it enters only when no update and no lookup was
\* waiting as it polled; when an update or a lookup waits as it polls, its next
\* request is an update or a lookup, and it takes one.
C31_UpdateAndLookupFirst ==
    /\ [][(Receives /\ mapChan(opOf(call'.worker.r)) \notin HighChans)
             => call.worker.pc = "default"]_vars
    /\ [][(call.worker.pc = "select" /\ call'.worker.pc = "default")
             => Senders(HighChans) = {}]_vars
    /\ [][(call.worker.pc = "select" /\ Senders(HighChans) # {}
             /\ call'.worker # call.worker)
             => call'.worker.r \in Senders(HighChans)]_vars
    /\ (call.worker.pc = "select" /\ Senders(HighChans) # {})
           ~> (call.worker.pc = "serve"
                  /\ mapChan(opOf(call.worker.r)) \in HighChans)

\* The worker is parked on a lock request it received in the second select
\* while an update and a lookup, sent after it polled, wait.
C31_Witness ==
    /\ call.op = "sync"
    /\ call.worker.pc = "done"
    /\ \E t, u \in Senders(HighChans) : opOf(t) = "Update" /\ opOf(u) = "Lookup"

(***************************************************************************)
(* Termination.                                                            *)
(***************************************************************************)
\* C40: the system does not deadlock: with two reads that hold the refcount
\* mutex during their lookup, a write, a threshold-GC pass and a reaper pass
\* that use the lock requests of the map proxy and the refcount mutex, and
\* store workers that complete, every started BuseRead, BuseWrite, gcThreshold
\* and reaper pass returns.
C40_EveryCallReturns ==
    \A t \in SyncTasks :
        (call.task[t].st # "idle") ~> (call.task[t].st = "idle")

\* A read holds the refcount mutex with its lookup blocked on lookupChan, the
\* other read waits for the mutex, and the worker is parked on the lock request
\* of the reaper.
C40_Witness ==
    /\ call.op = "sync"
    /\ call.reflock = "BuseRead1"
    /\ call.task["BuseRead1"].st = "send"
    /\ call.task["BuseRead2"].st = "run"
    /\ opOf("BuseRead2") = "reflock.Lock"
    /\ call.worker = [pc |-> "done", r |-> "gcDead"]
    /\ call.task["BuseWrite"].st # "idle"
    /\ call.task["gcThreshold"].st # "idle"

(***************************************************************************)
(* Properties of roll-forward.                                             *)
(***************************************************************************)
\* The first key from start on that has no object on the store.
FirstAbsentFrom(start, st) ==
    CHOOSE k \in start .. (start + Cardinality(DOMAIN st)) :
        /\ k \notin DOMAIN st
        /\ \A j \in start .. (k - 1) : j \in DOMAIN st

\* The map after the objects of the keys k .. frontier - 1 were replayed in the
\* order of their keys: the header extents of an object that is not empty are
\* applied, a zero-byte object leaves the map as it is.
RECURSIVE Replayed(_, _, _, _)
Replayed(sm, k, frontier, st) ==
    IF k >= frontier THEN sm
    ELSE Replayed(IF st[k].size = 0 THEN sm
                  ELSE Update(sm, parseHeader(st[k].hdr, 1), DataStart, k),
                  k + 1, frontier, st)

\* C32: roll-forward starts at the key the checkpoint returned (0 without a
\* checkpoint), visits the keys in increasing order and skips none, applies the
\* header extents of each object that is not empty, passes over zero-byte
\* objects, and stops at the first key absent from the store, which is
\* key.Current() when it ends.
C32_RollForwardReplaysDensePrefix ==
    [][(boot = "crashed" /\ boot' # "crashed") =>
          LET c == restoreFromCheckpoint(m, key, store)
          IN  /\ boot' = "restored"
              /\ key' = FirstAbsentFrom(c.key, store)
              /\ key' \notin DOMAIN store
              /\ m' = Replayed(c.m, c.key, key', store)]_vars

\* A restore rolled forward over a zero-byte object and then over an object that
\* is not empty, which an entry refers to.
C32_Witness ==
    /\ boot = "restored"
    /\ \E k, k2 \in DOMAIN store :
           /\ k >= restoreFromCheckpoint(New(Cardinality(DOMAIN m.Sectors)), 0, store).key
           /\ k >= 0
           /\ k2 > k
           /\ store[k].size = 0
           /\ store[k2].size > 0
           /\ \E s \in DOMAIN m.Sectors : m.Sectors[s].Key = k2

(***************************************************************************)
(* Properties of the truncation of the tail.                               *)
(***************************************************************************)
\* C33: after restore() no object with a key at or above the recovered frontier
\* remains on the store, and every object with a key below the frontier, the
\* checkpoint under key -1 included, is kept as it was.
C33_TailTruncatedPrefixKept ==
    [][(boot = "crashed" /\ boot' = "restored") =>
          /\ \A k \in DOMAIN store' : k < key'
          /\ \A k \in DOMAIN store :
                 k < key' => (k \in DOMAIN store' /\ store'[k] = store[k])]_vars

\* A restore kept the objects below the frontier and deleted an object that had
\* been uploaded with a key above the frontier.
C33_Witness ==
    /\ boot = "restored"
    /\ key > 0
    /\ \A k \in 0 .. (key - 1) : k \in DOMAIN store
    /\ \E i \in 1 .. Len(hist.uploaded) :
           hist.uploaded[i][2] > key /\ hist.uploaded[i][2] \notin DOMAIN store

(***************************************************************************)
(* Properties of the object header.                                        *)
(***************************************************************************)
\* C34: the header of every stored object, written by BuseWrite or composed by
\* the threshold GC, holds sector and length in 512-byte units: parsing it, as
\* roll-forward does, yields the extents that were applied to the map when the
\* object was uploaded, with either block size.
C34_HeaderParsesToAppliedExtents ==
    \A k \in DOMAIN store :
        (k \in DOMAIN applied /\ store[k].size > 0) =>
            /\ parseHeader(store[k].hdr, 1) = applied[k]
            /\ \A j \in 1 .. Len(applied[k]) :
                   /\ store[k].hdr[j].sector = applied[k][j].Sector * (blockSize \div sectorUnit)
                   /\ store[k].hdr[j].length = applied[k][j].Length * (blockSize \div sectorUnit)

(***************************************************************************)
(* Properties of the sequence numbers after a restart.                     *)
(***************************************************************************)
\* C35: after restore() every sector entry has seq_no 0, so that the first write
\* of the restarted shim, whose numbering starts again, replaces the entry of
\* any sector it covers.
C35_RestoreZeroesSeqNo ==
    boot = "restored" =>
        \A s \in DOMAIN m.Sectors :
            /\ m.Sectors[s].SeqNo = 0
            /\ Update(m, ChunkWrites(<<<<s, 1>>>>, 1), DataStart, key).Sectors[s].Key = key

(***************************************************************************)
(* Properties of dead keys.                                                *)
(***************************************************************************)
\* C36: once a key is in the dead set or its object is emptied, no sector entry
\* refers to that key again: in every state, also after the roll-forward that
\* follows a checkpoint, no entry refers to a key of the dead set or to a
\* zero-byte object.
C36_DeadKeysStayUnreferenced ==
    (mp.pc = "select" /\ boot # "panicked") =>
        \A s \in DOMAIN m.Sectors :
            /\ m.Sectors[s].Key \notin m.DeadObjs
            /\ m.Sectors[s].Key \in DOMAIN store => store[m.Sectors[s].Key].size > 0

(***************************************************************************)
(* Properties of the threshold GC beside the reaper.                       *)
(***************************************************************************)
\* The items of the composed object in hand whose extent covers sector s.
ItemsAt(s) ==
    {j \in {g.objs[g.idx][x] : x \in 1 .. Len(g.objs[g.idx])} :
        /\ g.list[j].ObjectPart.Sector <= s
        /\ s < g.list[j].ObjectPart.Sector + g.list[j].Extent.Length}

\* C37: with a GC pass, client writes and reaper passes interleaved, also in a
\* restarted process, every sector entry that a GC update installs belongs to
\* an item whose source object was not a zero-byte placeholder when the pass
\* downloaded it, and the entry points at the payload it showed before.
C37_GCInstallsNoEmptiedPayload ==
    [][g.pc = "update" =>
          \A s \in DOMAIN m.Sectors :
              (m'.Sectors[s] # m.Sectors[s] /\ m'.Sectors[s].Key = g.key) =>
                  /\ ItemsAt(s) # {}
                  /\ ItemsAt(s) \cap g.emptied = {}
                  /\ g.key \in DOMAIN store =>
                         Shows(m'.Sectors, store', s) = Shows(m.Sectors, store, s)]_vars

\* A pass downloaded an item from an object the reaper had emptied, and its
\* Update has run: the entry of the item's sector is not of the composed object.
C37_Witness ==
    /\ g.pc = "idle"
    /\ g.n > 0
    /\ g.emptied # {}
    /\ g.key \in DOMAIN store
    /\ store[g.key].size > 0
    /\ \A s \in DOMAIN m.Sectors : m.Sectors[s].Key # g.key

(***************************************************************************)
(* Properties of the reaper when the empty upload fails.                   *)
(***************************************************************************)
\* C38: the reaper removes a key from the dead set only when the object of the
\* key has been replaced by the zero-byte placeholder; a key whose empty upload
\* failed stays in the dead set.
C38_RemovedOnlyWhenEmptied ==
    [][d.pc = "upload" =>
          \A k \in m.DeadObjs \ m'.DeadObjs :
              k \in DOMAIN store' /\ store'[k].size = 0]_vars

(***************************************************************************)
(* Properties of recovery when a request of the roll-forward fails.        *)
(***************************************************************************)
\* C39: whether or not a size query or a header download fails during the
\* restore, the frontier is a key with no object on the store, and every
\* object of the dense prefix, from the key roll-forward starts at up to the
\* first absent key, is still on the store after the tail truncation.
C39_OnlyAbsentKeyEndsRollForward ==
    [][(boot = "crashed" /\ boot' = "restored") =>
          LET start == restoreFromCheckpoint(m, key, store).key
          IN  /\ key' \notin DOMAIN store
              /\ \A k \in start .. (FirstAbsentFrom(start, store) - 1) :
                     k \in DOMAIN store' /\ store'[k] = store[k]]_vars

====
